---- MODULE Spec2Model ----
(***************************************************************************)
(* A model of redfish_to_grpc.py: the CSDL schema compiler that parses a   *)
(* directory of schema documents in a worker pool, merges and de-duplicates*)
(* the type definitions, rewrites abstract references and generates proto  *)
(* files.                                                                  *)
(*                                                                         *)
(* Representation.                                                         *)
(*  - A Python object graph is a nested record: the objects the parser     *)
(*    builds are private copies (every find_element_in_scope call builds   *)
(*    new objects), so a reference held by a property is the value it      *)
(*    points at.  After the abstract pass a reference may point at an      *)
(*    element of flat_list, which is shared: that is [kind |-> "ListRef"]. *)
(*  - None is [kind |-> "None"]; a BaseType member is [kind |-> "BaseType"]*)
(*  - A type-name string is [coll, base]: base wrapped coll times in       *)
(*    "Collection(" ... ")"; StrOf gives the string itself.                *)
(*  - A namespace string is the sequence of its dot-separated segments.    *)
(*  - Each worker process runs parse_file / find_element_in_scope as an    *)
(*    explicit stack of call frames, one action per step between two       *)
(*    calls, returns or file-system operations.                            *)
(***************************************************************************)
EXTENDS Integers, Sequences, FiniteSets, TLC

VARIABLES
    corpus,   \* the input of the run: documents, top-level files, network
    fs,       \* REDFISH_SCHEMA_DIR: path -> file
    wk,       \* the pool's worker processes
    pool,     \* Pool.map: the task queue and the results
    main,     \* main(): its position, flat_list, the exception that ended it
    out       \* GRPC_DIR and folders_added_to_grpc

vars == <<corpus, fs, wk, pool, main, out>>

(***************************************************************************)
(* Bounds                                                                  *)
(***************************************************************************)
\* Pool(int(cpu_count() / 2)): the number of worker processes.
NumWorkers == 2
\* sys.getrecursionlimit(): the number of nested calls Python allows.
RecursionLimit == 9

Workers == 1..NumWorkers

(***************************************************************************)
(* Values                                                                  *)
(***************************************************************************)
NoneV == [kind |-> "None"]
IsNone(v) == v.kind = "None"

BaseTypeV(n) == [kind |-> "BaseType", name |-> n]

\* A type-name string: `base` inside `coll` layers of Collection( ).
TN(c, b) == [coll |-> c, base |-> b]
\* element_name_filter=None
NoFilter == [coll |-> 0 - 1, base |-> ""]
\* An attribute that is not there (attrib.get(..., None)).
NoAttr == [coll |-> 0 - 1, base |-> ""]

RECURSIVE StrOf(_)
StrOf(tn) ==
    IF tn.coll <= 0 THEN tn.base
    ELSE "Collection(" \o StrOf(TN(tn.coll - 1, tn.base)) \o ")"

RECURSIVE NsString(_)
NsString(ns) ==
    IF Len(ns) = 0 THEN ""
    ELSE IF Len(ns) = 1 THEN ns[1]
    ELSE ns[1] \o "." \o NsString(Tail(ns))

\* namespace.split(".")[0]
NsRoot(ns) == IF Len(ns) = 0 THEN "" ELSE ns[1]

circular_imports ==
    { "SubProcessors", "AllocatedPools", "CapacitySources", "StorageGroups",
      "Steps", "MetricReportDefinition", "SubTasks",
      "DataProtectionLinesOfService" }

basetype_from_edm(edm_type) ==
    CASE edm_type = "Edm.String" -> BaseTypeV("STRING")
      [] edm_type = "Edm.Boolean" -> BaseTypeV("BOOLEAN")
      [] edm_type = "Edm.Decimal" -> BaseTypeV("DECIMAL")
      [] edm_type = "Edm.Int64" -> BaseTypeV("INT64")
      [] edm_type = "Edm.Int32" -> BaseTypeV("INT32")
      [] edm_type = "Edm.DateTimeOffset" -> BaseTypeV("TIME")
      [] edm_type = "Edm.Duration" -> BaseTypeV("DURATION")
      [] edm_type = "Edm.Guid" -> BaseTypeV("GUID")
      [] OTHER -> NoneV

EntityType(name, basetype, namespace, abstract, from_file) ==
    [kind |-> "EntityType", name |-> name, properties |-> <<>>,
     basetype |-> basetype, namespace |-> namespace, abstract |-> abstract,
     from_file |-> from_file]

Enum(name, values, namespace, from_file) ==
    [kind |-> "Enum", name |-> name, values |-> values,
     namespace |-> namespace, from_file |-> from_file]

Complex(name, namespace, from_file) ==
    [kind |-> "Complex", name |-> name, namespace |-> namespace,
     from_file |-> from_file]

TypeDef(name, basetype, namespace, from_file) ==
    [kind |-> "TypeDef", name |-> name, basetype |-> basetype,
     namespace |-> namespace, from_file |-> from_file]

Collection(name, contained_type, from_file) ==
    [kind |-> "Collection", name |-> name, contained_type |-> contained_type,
     from_file |-> from_file]

Property(name, thistype, permissions, from_file) ==
    [kind |-> "Property", name |-> name, type |-> thistype,
     permissions |-> permissions, from_file |-> from_file]

NavigationProperty(name, thistype, permissions, auto_expand, expand_references, from_file, contains_target) ==
    [kind |-> "NavigationProperty", name |-> name, type |-> thistype,
     permissions |-> permissions, auto_expand |-> auto_expand,
     expand_references |-> expand_references, from_file |-> from_file,
     contains_target |-> contains_target]

\* basetype_flat as parse_file fills it: the base, then the base's own list.
RECURSIVE BasetypeFlat(_)
BasetypeFlat(basetype) ==
    IF IsNone(basetype) THEN <<>>
    ELSE IF basetype.kind = "EntityType"
         THEN <<basetype>> \o BasetypeFlat(basetype.basetype)
         ELSE <<basetype>>

(***************************************************************************)
(* Documents (the XML trees ET.parse returns)                              *)
(***************************************************************************)
\* A uri is <<host, basename>>; os.path.basename(urlparse(uri).path).
UriBasename(uri) == uri[2]

\* os.path.join(REDFISH_SCHEMA_DIR, basename): a path is the basename.
SchemaPath(uri) == UriBasename(uri)

XProp(tag, name, type, annotations) ==
    [tag |-> tag, name |-> name, type |-> type, contains_target |-> FALSE,
     terms |-> annotations]

XEntity(name, base, abstract, props) ==
    [tag |-> "EntityType", name |-> name, base |-> base, abstract |-> abstract,
     props |-> props, members |-> <<>>, underlying |-> NoAttr]

XEnum(name, members) ==
    [tag |-> "EnumType", name |-> name, base |-> NoAttr, abstract |-> FALSE,
     props |-> <<>>, members |-> members, underlying |-> NoAttr]

XComplex(name) ==
    [tag |-> "ComplexType", name |-> name, base |-> NoAttr, abstract |-> FALSE,
     props |-> <<>>, members |-> <<>>, underlying |-> NoAttr]

XTypeDef(name, underlying) ==
    [tag |-> "TypeDefinition", name |-> name, base |-> NoAttr,
     abstract |-> FALSE, props |-> <<>>, members |-> <<>>,
     underlying |-> underlying]

XOther(tag, name) ==
    [tag |-> tag, name |-> name, base |-> NoAttr, abstract |-> FALSE,
     props |-> <<>>, members |-> <<>>, underlying |-> NoAttr]

XSchema(ns, elems) == [ns |-> ns, elems |-> elems]

\* refs: the edmx:Reference elements, each with its Uri and its own
\* edmx:Include children; rootIncludes: edmx:Include elements that are
\* direct children of the root element.
XDoc(refs, rootIncludes, schemas) ==
    [refs |-> refs, rootIncludes |-> rootIncludes, schemas |-> schemas]

XRef(uri, includes) == [uri |-> uri, includes |-> includes]


(***************************************************************************)
(* The schema directory                                                    *)
(***************************************************************************)
\* The file names the model uses.
Paths ==
    {"fx.xml", "fy.xml", "fa.xml", "fb.xml", "fc.xml",
     "OemAccountService.xml"}

\* A file is its existence and its bytes in two chunks: "-" is past the end
\* of the file, "0" a hole, anything else the document the bytes come from.
NoFile == [exists |-> FALSE, bytes |-> <<"-", "-">>]
FileOf(d) == [exists |-> TRUE, bytes |-> <<d, d>>]

\* open(filepath, "wb"): creates the file or truncates it.
Truncated == [exists |-> TRUE, bytes |-> <<"-", "-">>]

\* write() of chunk n of document d at its offset; a write past the end of
\* the file leaves a hole before it.
ChunkWritten(f, n, d) ==
    [exists |-> TRUE,
     bytes |-> IF n = 1 THEN <<d, f.bytes[2]>>
               ELSE <<IF f.bytes[1] = "-" THEN "0" ELSE f.bytes[1], d>>]

\* The bytes are one whole document.
WellFormed(f) ==
    f.exists /\ f.bytes[1] = f.bytes[2] /\ f.bytes[1] \notin {"-", "0"}

(***************************************************************************)
(* Corpora: the schema directories and origin servers of the runs          *)
(***************************************************************************)
U(p) == <<"h", p>>

Ok(d) == [ok |-> TRUE, doc |-> d]
NotOk == [ok |-> FALSE, doc |-> "-"]

StringProp(name) == XProp("Property", name, TN(0, "Edm.String"), {})

EmptyDoc == XDoc(<<>>, <<>>, <<>>)

\* "plain": an abstract type and a concrete type derived from it in one
\* namespace, and an entity that navigates to the abstract type.
PlainA ==
    XDoc(<<XRef(U("fx.xml"), <<"NX">>)>>, <<>>,
         <<XSchema(<<"NA">>,
              <<XEntity("A", NoAttr, TRUE, <<>>),
                XEntity("C", TN(0, "NA.A"), FALSE, <<StringProp("Name")>>)>>)>>)
PlainX ==
    XDoc(<<XRef(U("fa.xml"), <<"NA">>)>>, <<>>,
         <<XSchema(<<"NX">>,
              <<XEntity("X", NoAttr, FALSE,
                   <<StringProp("Id"),
                     XProp("NavigationProperty", "Link", TN(1, "NA.A"),
                           {})>>)>>)>>)

\* "versioned": the abstract type in the unversioned namespace, the concrete
\* type of the same name in a versioned one, and the service root, which
\* has a reference, an expanded property, a collection and a reference
\* with expanded references, and a collection without.
VersionedA ==
    XDoc(<<XRef(U("fx.xml"), <<"NX">>)>>, <<>>,
         <<XSchema(<<"NA">>,
              <<XEntity("A", NoAttr, TRUE, <<StringProp("Id")>>)>>),
           XSchema(<<"NA", "v1">>,
              <<XEntity("A", TN(0, "NA.A"), FALSE,
                   <<StringProp("Name"),
                     StringProp("Steps"),
                     XProp("Property", "Count", TN(0, "Edm.Int64"),
                           {"OData.Permission/Read"})>>),
                XOther("Action", "Reset")>>)>>)
VersionedRoot ==
    XDoc(<<XRef(U("fa.xml"), <<"NA">>)>>, <<>>,
         <<XSchema(<<"NX">>,
              <<XEntity("ServiceRoot", NoAttr, FALSE,
                   <<StringProp("Id"),
                     XProp("NavigationProperty", "Link", TN(0, "NA.A"), {}),
                     XProp("NavigationProperty", "Item", TN(0, "NA.A"),
                           {"OData.AutoExpand"}),
                     XProp("NavigationProperty", "Subs", TN(1, "NA.A"),
                           {"OData.AutoExpandReferences"}),
                     XProp("NavigationProperty", "Base", TN(0, "NA.A"),
                           {"OData.AutoExpandReferences"}),
                     XProp("NavigationProperty", "Chassis", TN(1, "NA.A"),
                           {})>>)>>)>>)

\* "fetch": two top-level documents that refer to a document that is only on
\* the origin server.
FetchX ==
    XDoc(<<XRef(U("fb.xml"), <<>>)>>, <<>>,
         <<XSchema(<<"NX">>,
              <<XEntity("X", NoAttr, FALSE,
                   <<XProp("Property", "P", TN(0, "NB.T"), {}),
                     XProp("Property", "Q", TN(0, "NB.T"), {})>>)>>)>>)
FetchY ==
    XDoc(<<XRef(U("fb.xml"), <<>>)>>, <<>>,
         <<XSchema(<<"NY">>,
              <<XEntity("Y", NoAttr, FALSE,
                   <<XProp("Property", "R", TN(0, "NB.T"), {})>>)>>)>>)
FetchT ==
    XDoc(<<>>, <<>>,
         <<XSchema(<<"NB">>,
              <<XEntity("T", NoAttr, TRUE, <<StringProp("Name")>>)>>)>>)

\* "unresolved": a property whose type no document declares.
UnresolvedX ==
    XDoc(<<XRef(U("fx.xml"), <<>>)>>, <<>>,
         <<XSchema(<<"NX">>,
              <<XEntity("X", NoAttr, FALSE,
                   <<StringProp("Id"),
                     XProp("Property", "P", TN(0, "NZ.Missing"), {})>>)>>)>>)

\* "typedef": a type definition whose underlying type no document declares.
TypedefX ==
    XDoc(<<XRef(U("fx.xml"), <<>>)>>, <<>>,
         <<XSchema(<<"NX">>,
              <<XTypeDef("D", TN(0, "NZ.Missing")),
                XEntity("X", NoAttr, FALSE,
                   <<StringProp("Id"),
                     XProp("Property", "P", TN(0, "NX.D"), {})>>)>>)>>)

\* "noscope": a document with no edmx:Reference.
NoScopeC ==
    XDoc(<<>>, <<>>,
         <<XSchema(<<"NC">>,
              <<XEntity("E", NoAttr, FALSE,
                   <<XProp("Property", "P", TN(0, "NZ.Missing"), {})>>)>>)>>)

\* "collide": namespace A with type BC, namespace AB with type C.
CollideC ==
    XDoc(<<>>, <<>>,
         <<XSchema(<<"A">>,
              <<XEntity("BC", NoAttr, FALSE, <<StringProp("Id")>>)>>),
           XSchema(<<"AB">>,
              <<XEntity("C", NoAttr, FALSE, <<StringProp("Name")>>)>>)>>)

\* "scope": three scope entries with no, two and one declaration of NB.D.
ScopeA == XDoc(<<>>, <<>>, <<XSchema(<<"NB">>, <<XOther("Term", "D")>>)>>)
ScopeB ==
    XDoc(<<>>, <<>>,
         <<XSchema(<<"NB">>,
              <<XEnum("D", <<"On", "Off">>), XComplex("D")>>)>>)
ScopeC == XDoc(<<>>, <<>>, <<XSchema(<<"NB">>, <<XComplex("D")>>)>>)
ScopeX ==
    XDoc(<<XRef(U("fa.xml"), <<>>), XRef(U("fb.xml"), <<>>),
           XRef(U("fc.xml"), <<>>)>>, <<>>,
         <<XSchema(<<"NX">>,
              <<XEntity("X", NoAttr, FALSE,
                   <<XProp("Property", "P", TN(0, "NB.D"), {}),
                     XProp("Property", "Q", TN(0, "NB.Z"), {})>>)>>)>>)

\* "oem": a document that refers to a type of the OEM account service
\* document, which main() does not parse at the top level.
OemX ==
    XDoc(<<XRef(U("OemAccountService.xml"), <<>>)>>, <<>>,
         <<XSchema(<<"NX">>,
              <<XEntity("X", NoAttr, FALSE,
                   <<XProp("Property", "P", TN(0, "NO.T"), {}),
                     XProp("Property", "Q", TN(0, "NZ.Missing"), {})>>)>>)>>)
OemT ==
    XDoc(<<>>, <<>>,
         <<XSchema(<<"NO">>,
              <<XEntity("T", NoAttr, TRUE, <<StringProp("Name")>>)>>)>>)

\* "service": a service root with an inherited navigation property, a
\* collection whose members hold a collection and contain an entity, an
\* expanded property and a navigation property with a denylisted name.
ServiceA ==
    XDoc(<<XRef(U("fa.xml"), <<"NA">>)>>, <<>>,
         <<XSchema(<<"NA">>,
              <<XEntity("Z", NoAttr, FALSE, <<StringProp("Name")>>),
                XEntity("T", NoAttr, FALSE,
                   <<StringProp("Name"),
                     XProp("NavigationProperty", "Subs", TN(1, "NA.Z"),
                           {}),
                     [XProp("NavigationProperty", "Item", TN(0, "NA.Z"), {})
                         EXCEPT !.contains_target = TRUE]>>)>>)>>)
ServiceX ==
    XDoc(<<XRef(U("fa.xml"), <<"NA">>)>>, <<>>,
         <<XSchema(<<"NX">>,
              <<XEntity("E", NoAttr, FALSE,
                   <<XProp("NavigationProperty", "Base", TN(0, "NA.Z"),
                           {})>>),
                XEntity("ServiceRoot", TN(0, "NX.E"), FALSE,
                   <<StringProp("Id"),
                     XProp("NavigationProperty", "SubTasks", TN(1, "NA.T"),
                           {}),
                     XProp("NavigationProperty", "Chassis", TN(1, "NA.T"),
                           {}),
                     XProp("NavigationProperty", "Item", TN(0, "NA.Z"),
                           {"OData.AutoExpand"})>>)>>)>>)

\* "tworoots": two namespaces that each declare a ServiceRoot.
TwoRootsC ==
    XDoc(<<>>, <<>>,
         <<XSchema(<<"NX">>,
              <<XEntity("ServiceRoot", NoAttr, FALSE, <<StringProp("Id")>>)>>),
           XSchema(<<"NY">>,
              <<XEntity("ServiceRoot", NoAttr, FALSE,
                   <<StringProp("Name")>>)>>)>>)

\* "walk": a concrete type with a property that is a collection of its
\* abstract base type, reached from the service root.
WalkA ==
    XDoc(<<XRef(U("fa.xml"), <<>>)>>, <<>>,
         <<XSchema(<<"NA">>,
              <<XEntity("T", NoAttr, TRUE, <<>>),
                XEntity("D", TN(0, "NA.T"), FALSE,
                   <<XProp("Property", "Subs", TN(1, "NA.T"), {})>>)>>)>>)
WalkX ==
    XDoc(<<XRef(U("fa.xml"), <<>>)>>, <<>>,
         <<XSchema(<<"NX">>,
              <<XEntity("ServiceRoot", NoAttr, FALSE,
                   <<XProp("NavigationProperty", "Link", TN(0, "NA.T"),
                           {})>>)>>)>>)

\* "cycle": C has a property of the abstract type T, whose concrete type D
\* has a property of type C.
CycleA ==
    XDoc(<<XRef(U("fx.xml"), <<>>), XRef(U("fa.xml"), <<>>)>>, <<>>,
         <<XSchema(<<"NA">>,
              <<XEntity("T", NoAttr, TRUE, <<>>),
                XEntity("D", TN(0, "NA.T"), FALSE,
                   <<XProp("Property", "Q", TN(0, "NX.C"), {})>>)>>)>>)
CycleX ==
    XDoc(<<XRef(U("fa.xml"), <<>>)>>, <<>>,
         <<XSchema(<<"NX">>,
              <<XEntity("C", NoAttr, FALSE,
                   <<XProp("Property", "P", TN(0, "NA.T"), {})>>)>>)>>)

\* "derived": a property whose type is a concrete type that another type
\* of the list is derived from.
DerivedC ==
    XDoc(<<XRef(U("fc.xml"), <<>>)>>, <<>>,
         <<XSchema(<<"NC">>,
              <<XEntity("B", NoAttr, FALSE, <<StringProp("Name")>>),
                XEntity("A", TN(0, "NC.B"), FALSE, <<StringProp("Id")>>),
                XEntity("X", NoAttr, FALSE,
                   <<XProp("Property", "P", TN(0, "NC.B"), {})>>)>>)>>)

\* "include": a reference that includes one of the two namespaces of its
\* document, and properties of a type of each.
IncludeA ==
    XDoc(<<XRef(U("fa.xml"), <<"NA", "NB">>)>>, <<>>,
         <<XSchema(<<"NA">>,
              <<XEntity("Z", NoAttr, FALSE, <<StringProp("Name")>>)>>),
           XSchema(<<"NB">>,
              <<XEntity("D", NoAttr, FALSE, <<StringProp("Name")>>)>>)>>)
IncludeX ==
    XDoc(<<XRef(U("fa.xml"), <<"NA">>)>>, <<>>,
         <<XSchema(<<"NX">>,
              <<XEntity("X", NoAttr, FALSE,
                   <<XProp("Property", "P", TN(0, "NB.D"), {}),
                     XProp("Property", "Q", TN(0, "NA.Z"), {})>>)>>)>>)

\* "self": an entity with a property whose type is the entity itself.
SelfX ==
    XDoc(<<XRef(U("fx.xml"), <<"NX">>)>>, <<>>,
         <<XSchema(<<"NX">>,
              <<XEntity("E", NoAttr, FALSE,
                   <<StringProp("Name"),
                     XProp("Property", "P", TN(0, "NX.E"), {})>>)>>)>>)

Corpora ==
    {"plain", "versioned", "fetch", "unresolved", "typedef", "noscope",
     "collide", "scope", "oem", "service", "tworoots", "walk", "cycle",
     "derived", "include", "self"}

\* The document whose bytes are d.
Document(c, d) ==
    CASE c = "plain" /\ d = "fa.xml" -> PlainA
      [] c = "plain" /\ d = "fx.xml" -> PlainX
      [] c = "versioned" /\ d = "fa.xml" -> VersionedA
      [] c = "versioned" /\ d = "fx.xml" -> VersionedRoot
      [] c = "fetch" /\ d = "fx.xml" -> FetchX
      [] c = "fetch" /\ d = "fy.xml" -> FetchY
      [] c = "fetch" /\ d = "fb.xml" -> FetchT
      [] c = "unresolved" /\ d = "fx.xml" -> UnresolvedX
      [] c = "typedef" /\ d = "fx.xml" -> TypedefX
      [] c = "noscope" /\ d = "fc.xml" -> NoScopeC
      [] c = "collide" /\ d = "fc.xml" -> CollideC
      [] c = "scope" /\ d = "fa.xml" -> ScopeA
      [] c = "scope" /\ d = "fb.xml" -> ScopeB
      [] c = "scope" /\ d = "fc.xml" -> ScopeC
      [] c = "scope" /\ d = "fx.xml" -> ScopeX
      [] c = "oem" /\ d = "fx.xml" -> OemX
      [] c = "oem" /\ d = "OemAccountService.xml" -> OemT
      [] c = "tworoots" /\ d = "fc.xml" -> TwoRootsC
      [] c = "service" /\ d = "fa.xml" -> ServiceA
      [] c = "service" /\ d = "fx.xml" -> ServiceX
      [] c = "derived" /\ d = "fc.xml" -> DerivedC
      [] c = "self" /\ d = "fx.xml" -> SelfX
      [] c = "include" /\ d = "fa.xml" -> IncludeA
      [] c = "include" /\ d = "fx.xml" -> IncludeX
      [] c = "cycle" /\ d = "fa.xml" -> CycleA
      [] c = "cycle" /\ d = "fx.xml" -> CycleX
      [] c = "walk" /\ d = "fa.xml" -> WalkA
      [] c = "walk" /\ d = "fx.xml" -> WalkX
      [] OTHER -> EmptyDoc

\* The files os.walk finds in REDFISH_SCHEMA_DIR, in its order.
Listing(c) ==
    CASE c \in {"plain", "versioned", "service", "walk", "cycle",
                 "include"} ->
             <<"fa.xml", "fx.xml">>
      [] c = "fetch" -> <<"fx.xml", "fy.xml">>
      [] c \in {"unresolved", "typedef", "self"} -> <<"fx.xml">>
      [] c \in {"noscope", "collide", "tworoots", "derived"} -> <<"fc.xml">>
      [] c = "scope" -> <<"fa.xml", "fb.xml", "fc.xml", "fx.xml">>
      [] c = "oem" -> <<"OemAccountService.xml", "fx.xml">>

OnDisk(c) == {Listing(c)[k] : k \in DOMAIN Listing(c)}

\* filename.startswith("OemAccountService")
StartsWithOemAccountService(filename) == filename = "OemAccountService.xml"

\* filepaths: the files of the directory but the OEM account service's.
TopLevel(c) ==
    SelectSeq(Listing(c), LAMBDA filename :
                             ~StartsWithOemAccountService(filename))

\* What requests.get(uri) can answer.
Responses(c, uri) ==
    IF c = "fetch" /\ uri = U("fb.xml") THEN {Ok("fb.xml"), NotOk}
    ELSE {NotOk}

(***************************************************************************)
(* parse_file: the part between ET.parse and the loop over the elements    *)
(***************************************************************************)
\* references: every Reference with the namespaces list, which is built
\* from root.findall(Include), the Include children of the root element.
References(doc) ==
    [r \in DOMAIN doc.refs |->
        [uri |-> doc.refs[r].uri, namespaces |-> doc.rootIncludes]]

\* `namespace in namespaces_to_check`: namespace is a str and every member of
\* namespaces_to_check an (ns, alias) tuple; a str never equals a tuple.
PyStrEqTuple(s, t) == FALSE

NamespaceChecked(namespace, namespaces_to_check) ==
    \/ Len(namespaces_to_check) = 0
    \/ \E k \in DOMAIN namespaces_to_check :
          PyStrEqTuple(NsString(namespace), namespaces_to_check[k])

\* The name filter: neither name nor scoped_name equal the filter -> continue.
NameSelected(namespace, name, element_name_filter) ==
    \/ element_name_filter = NoFilter
    \/ name = StrOf(element_name_filter)
    \/ NsString(namespace) \o "." \o name = StrOf(element_name_filter)

RECURSIVE SelectedElements(_, _, _)
SelectedElements(schemas, namespaces_to_check, element_name_filter) ==
    IF Len(schemas) = 0 THEN <<>>
    ELSE LET s == Head(schemas)
             Keep(e) == NameSelected(s.ns, e.name, element_name_filter)
             sel == IF NamespaceChecked(s.ns, namespaces_to_check)
                    THEN SelectSeq(s.elems, Keep) ELSE <<>>
         IN  [j \in 1..Len(sel) |-> [ns |-> s.ns, d |-> sel[j]]]
             \o SelectedElements(Tail(schemas), namespaces_to_check,
                                 element_name_filter)

(***************************************************************************)
(* Call frames                                                             *)
(***************************************************************************)
ParseFrame(filename, namespaces_to_check, element_name_filter) ==
    [fn |-> "parse_file", file |-> filename, nsf |-> namespaces_to_check,
     filt |-> element_name_filter, ph |-> "load", refs |-> <<>>,
     els |-> <<>>, k |-> 1, ent |-> NoneV, pk |-> 1, out |-> <<>>]

\* `namespaces`, the loop variable of find_element_in_scope, before the loop
\* has assigned it.
Unbound == [bound |-> FALSE, v |-> <<>>]
Bound(v) == [bound |-> TRUE, v |-> v]

FindFrame(element_name, references, this_file) ==
    [fn |-> "find_element_in_scope", name |-> element_name,
     refs |-> references, this_file |-> this_file, ph |-> "start", i |-> 1,
     nss |-> Unbound, seen |-> TRUE, resp |-> "-", log |-> <<>>]

IdleWorker ==
    [st |-> "idle", task |-> 0, stack |-> <<>>, ret |-> NoneV,
     cache |-> [p \in Paths |-> "-"],
     fetched |-> <<>>, parsed |-> <<>>, calls |-> <<>>]

Busy(w) == wk[w].st = "busy" /\ Len(wk[w].stack) > 0
Top(w) == wk[w].stack[Len(wk[w].stack)]
InParse(w, ph) ==
    Busy(w) /\ Top(w).fn = "parse_file" /\ Top(w).ph = ph
InFind(w, ph) ==
    Busy(w) /\ Top(w).fn = "find_element_in_scope" /\ Top(w).ph = ph

SetTop(rec, f) == [rec EXCEPT !.stack = [@ EXCEPT ![Len(@)] = f]]
Popped(rec, v) ==
    [rec EXCEPT !.stack = SubSeq(@, 1, Len(@) - 1), !.ret = v]

Failed(exc) == [done |-> TRUE, ok |-> FALSE, exc |-> exc, value |-> <<>>]
Succeeded(v) == [done |-> TRUE, ok |-> TRUE, exc |-> "", value |-> v]
Pending == [done |-> FALSE, ok |-> FALSE, exc |-> "", value |-> <<>>]

\* An exception leaves every frame of the task (the code has no try around
\* these calls); the pool's worker loop catches it, stores it as the task's
\* result and goes on to take the next task.  The map keeps the first
\* exception that reaches it.
Raise(w, rec, exc) ==
    /\ wk' = [wk EXCEPT ![w] =
                [rec EXCEPT !.stack = <<>>, !.st = "idle", !.ret = NoneV]]
    /\ pool' = [pool EXCEPT !.results[wk[w].task] = Failed(exc),
                            !.first = IF @ = "" THEN exc ELSE @,
                            !.arrived = Append(@, wk[w].task)]

Step(w, rec) ==
    /\ wk' = [wk EXCEPT ![w] = rec]
    /\ UNCHANGED pool

\* A call: the caller's frame becomes f, the callee's frame goes on top.
Call(w, f, callee) ==
    IF Len(wk[w].stack) >= RecursionLimit
    THEN Raise(w, wk[w], "RecursionError")
    ELSE Step(w, [wk[w] EXCEPT
                    !.stack = Append([@ EXCEPT ![Len(@)] = f], callee)])

Return(w, v) == Step(w, Popped(wk[w], v))


(***************************************************************************)
(* parse_file                                                              *)
(***************************************************************************)
\* xml_cache.get(filename); on a miss ET.parse(filename) and the store into
\* xml_cache; then the references and the elements the two filters keep.
P_Load(w) ==
    /\ InParse(w, "load")
    /\ LET f == Top(w)
           hit == wk[w].cache[f.file] # "-"
           file == fs[f.file]
           d == IF hit THEN wk[w].cache[f.file] ELSE file.bytes[1]
           doc == Document(corpus, d)
           read == [wk[w] EXCEPT
                      !.parsed = Append(@, [path |-> f.file, file |-> file])]
       IN  IF ~hit /\ ~file.exists
           THEN Raise(w, read, "FileNotFoundError")
           ELSE IF ~hit /\ ~WellFormed(file)
           THEN Raise(w, read, "ParseError")
           ELSE Step(w, SetTop(
                    IF hit THEN wk[w]
                    ELSE [read EXCEPT !.cache[f.file] = d],
                    [f EXCEPT !.ph = "scan",
                              !.refs = References(doc),
                              !.els = SelectedElements(doc.schemas, f.nsf,
                                                       f.filt)]))
    /\ UNCHANGED <<corpus, fs, main, out>>

\* One schema element that passed the filters, by its tag.
P_Element(w) ==
    /\ InParse(w, "scan")
    /\ LET f == Top(w) IN
       IF f.k > Len(f.els) THEN Return(w, f.out)
       ELSE LET ns == f.els[f.k].ns
                d == f.els[f.k].d
            IN  CASE d.tag = "EntityType" ->
                       IF d.base # NoAttr
                       THEN Call(w, [f EXCEPT !.ph = "base"],
                                 FindFrame(d.base, f.refs, f.file))
                       ELSE Step(w, SetTop(wk[w],
                              [f EXCEPT !.ph = "prop", !.pk = 1,
                                        !.ent = EntityType(d.name, NoneV, ns,
                                                    d.abstract, f.file)]))
                  [] d.tag = "EnumType" ->
                       Step(w, SetTop(wk[w],
                          [f EXCEPT !.k = @ + 1,
                                    !.out = Append(@, Enum(d.name, d.members,
                                                           ns, f.file))]))
                  [] d.tag = "ComplexType" ->
                       Step(w, SetTop(wk[w],
                          [f EXCEPT !.k = @ + 1,
                                    !.out = Append(@, Complex(d.name, ns,
                                                              f.file))]))
                  [] d.tag = "TypeDefinition" ->
                       Call(w, [f EXCEPT !.ph = "typedef"],
                            FindFrame(d.underlying, f.refs, f.file))
                  [] OTHER ->
                       Step(w, SetTop(wk[w], [f EXCEPT !.k = @ + 1]))
    /\ UNCHANGED <<corpus, fs, main, out>>

\* find_element_in_scope(basetypename, ...) has returned: the EntityType.
P_Base(w) ==
    /\ InParse(w, "base")
    /\ LET f == Top(w)
           ns == f.els[f.k].ns
           d == f.els[f.k].d
       IN  Step(w, SetTop(wk[w],
              [f EXCEPT !.ph = "prop", !.pk = 1,
                        !.ent = EntityType(d.name, wk[w].ret, ns, d.abstract,
                                           f.file)]))
    /\ UNCHANGED <<corpus, fs, main, out>>

\* The next child of the EntityType element, or the end of the element.
P_Property(w) ==
    /\ InParse(w, "prop")
    /\ LET f == Top(w)
           d == f.els[f.k].d
       IN  IF f.pk > Len(d.props)
           THEN Step(w, SetTop(wk[w],
                   [f EXCEPT !.ph = "scan", !.k = @ + 1,
                             !.out = Append(@, f.ent)]))
           ELSE IF d.props[f.pk].tag \in {"Property", "NavigationProperty"}
           THEN Call(w, [f EXCEPT !.ph = "propret"],
                     FindFrame(d.props[f.pk].type, f.refs, f.file))
           ELSE Step(w, SetTop(wk[w], [f EXCEPT !.pk = @ + 1]))
    /\ UNCHANGED <<corpus, fs, main, out>>

Permission(terms) ==
    IF "OData.Permission/Read" \in terms THEN "READ_ONLY" ELSE "READ_WRITE"

\* Only a Property is dropped.
DropsProperty(x) == x.tag = "Property" /\ x.name \in circular_imports

\* property_element.attrib["Name"] in circular_imports
Drops(x) == x.name \in circular_imports

\* The property's type is resolved: the annotations are read and the property
\* is stored unless its name is in circular_imports.
P_PropertyResolved(w) ==
    /\ InParse(w, "propret")
    /\ LET f == Top(w)
           x == f.els[f.k].d.props[f.pk]
           node == IF x.tag = "Property"
                   THEN Property(x.name, wk[w].ret, Permission(x.terms),
                                 f.file)
                   ELSE NavigationProperty(x.name, wk[w].ret,
                            Permission(x.terms), "OData.AutoExpand" \in x.terms,
                            "OData.AutoExpandReferences" \in x.terms, f.file,
                            x.contains_target)
       IN  Step(w, SetTop(wk[w],
              [f EXCEPT !.ph = "prop", !.pk = @ + 1,
                        !.ent = IF Drops(x) THEN @
                                ELSE [@ EXCEPT !.properties =
                                                   Append(@, node)]]))
    /\ UNCHANGED <<corpus, fs, main, out>>

\* find_element_in_scope(underlying_type, ...) has returned: the TypeDef.
P_TypeDef(w) ==
    /\ InParse(w, "typedef")
    /\ LET f == Top(w)
           ns == f.els[f.k].ns
           d == f.els[f.k].d
       IN  Step(w, SetTop(wk[w],
              [f EXCEPT !.ph = "scan", !.k = @ + 1,
                        !.out = Append(@, TypeDef(d.name, wk[w].ret, ns,
                                                  f.file))]))
    /\ UNCHANGED <<corpus, fs, main, out>>

(***************************************************************************)
(* find_element_in_scope                                                   *)
(***************************************************************************)
\* Collection( ... ) recurses on the inner name; an Edm name returns its
\* BaseType; anything else goes to the loop over the references.
F_Start(w) ==
    /\ InFind(w, "start")
    /\ LET f == Top(w) IN
       IF f.name.coll > 0
       THEN Call(w, [f EXCEPT !.ph = "wrap"],
                 FindFrame(TN(f.name.coll - 1, f.name.base), f.refs,
                           f.this_file))
       ELSE IF ~IsNone(basetype_from_edm(StrOf(f.name)))
       THEN Return(w, basetype_from_edm(StrOf(f.name)))
       ELSE Step(w, SetTop(wk[w], [f EXCEPT !.ph = "loop", !.i = 1]))
    /\ UNCHANGED <<corpus, fs, main, out>>

F_Wrap(w) ==
    /\ InFind(w, "wrap")
    /\ Return(w, Collection(StrOf(Top(w).name), wk[w].ret, Top(w).this_file))
    /\ UNCHANGED <<corpus, fs, main, out>>

\* `if not os.path.exists(filepath)`
NotExistsUnchecked(file) == TRUE
NotExists(file) == ~file.exists

\* The head of the loop: the next (reference_uri, namespaces) and
\* os.path.exists(filepath).  seen is what the file system answered.
F_Exists(w) ==
    /\ InFind(w, "loop")
    /\ LET f == Top(w) IN
       IF f.i > Len(f.refs)
       THEN Step(w, SetTop(wk[w], [f EXCEPT !.ph = "fallback"]))
       ELSE LET file == fs[SchemaPath(f.refs[f.i].uri)] IN
            Step(w, SetTop(wk[w],
               [f EXCEPT !.nss = Bound(f.refs[f.i].namespaces),
                         !.seen = file.exists,
                         !.ph = IF NotExists(file) THEN "fetch"
                                ELSE "parse"]))
    /\ UNCHANGED <<corpus, fs, main, out>>

\* r.raise_for_status() raises on a response that is not a success.
raise_for_status_never(r) == FALSE
raise_for_status(r) == ~r.ok

\* requests.get(reference_uri) and r.raise_for_status().  The worker's
\* fetched keeps every request: its uri, its outcome, the task it was made
\* for and whether the file was absent when the worker looked.
F_Fetch(w) ==
    /\ InFind(w, "fetch")
    /\ LET f == Top(w)
           uri == f.refs[f.i].uri
       IN  \E r \in Responses(corpus, uri) :
              LET asked == [wk[w] EXCEPT !.fetched =
                              Append(@, [uri |-> uri, ok |-> r.ok,
                                         task |-> wk[w].task,
                                         absent |-> ~f.seen])]
              IN  IF raise_for_status(r)
                  THEN Raise(w, asked, "HTTPError")
                  ELSE Step(w, SetTop(asked, [f EXCEPT !.ph = "open",
                                                       !.resp = r.doc]))
    /\ UNCHANGED <<corpus, fs, main, out>>

\* open(filepath, "wb")
F_Open(w) ==
    /\ InFind(w, "open")
    /\ fs' = [fs EXCEPT ![SchemaPath(Top(w).refs[Top(w).i].uri)] = Truncated]
    /\ Step(w, SetTop(wk[w], [Top(w) EXCEPT !.ph = "write1"]))
    /\ UNCHANGED <<corpus, main, out>>

\* .write(r.content): the bytes reach the file in one piece ...
F_Write(w) ==
    /\ InFind(w, "write1")
    /\ LET f == Top(w)
           p == SchemaPath(f.refs[f.i].uri)
       IN  fs' = [fs EXCEPT ![p] = ChunkWritten(ChunkWritten(@, 1, f.resp),
                                               2, f.resp)]
    /\ Step(w, SetTop(wk[w], [Top(w) EXCEPT !.ph = "parse"]))
    /\ UNCHANGED <<corpus, main, out>>

\* ... or in two.
F_WriteFirst(w) ==
    /\ InFind(w, "write1")
    /\ LET f == Top(w)
           p == SchemaPath(f.refs[f.i].uri)
       IN  fs' = [fs EXCEPT ![p] = ChunkWritten(@, 1, f.resp)]
    /\ Step(w, SetTop(wk[w], [Top(w) EXCEPT !.ph = "write2"]))
    /\ UNCHANGED <<corpus, main, out>>

F_WriteRest(w) ==
    /\ InFind(w, "write2")
    /\ LET f == Top(w)
           p == SchemaPath(f.refs[f.i].uri)
       IN  fs' = [fs EXCEPT ![p] = ChunkWritten(@, 2, f.resp)]
    /\ Step(w, SetTop(wk[w], [Top(w) EXCEPT !.ph = "parse"]))
    /\ UNCHANGED <<corpus, main, out>>

\* elements = parse_file(filepath, namespaces, element_name)
F_Parse(w) ==
    /\ InFind(w, "parse")
    /\ LET f == Top(w) IN
       Call(w, [f EXCEPT !.ph = "parsed"],
            ParseFrame(SchemaPath(f.refs[f.i].uri), f.nss.v, f.name))
    /\ UNCHANGED <<corpus, fs, main, out>>

CallRecord(f, fallback, result) ==
    [name |-> f.name, refs |-> f.refs, this_file |-> f.this_file,
     log |-> f.log, fallback |-> fallback, result |-> result]

\* `if len(elements) == 0: continue` and `if len(elements) > 1: ... continue`
ContinueOnEmpty(elements) == Len(elements) = 0
Continue(elements) == Len(elements) = 0 \/ Len(elements) > 1

\* No element: continue; more than one: continue; one: return it.
F_Parsed(w) ==
    /\ InFind(w, "parsed")
    /\ LET f == Top(w)
           elements == wk[w].ret
           g == [f EXCEPT !.log = Append(@, [i |-> f.i, n |-> Len(elements)])]
       IN  IF Continue(elements)
           THEN Step(w, SetTop(wk[w], [g EXCEPT !.ph = "loop", !.i = @ + 1]))
           ELSE Step(w, Popped([wk[w] EXCEPT !.calls =
                                  Append(@, CallRecord(g, FALSE, elements[1]))],
                               elements[1]))
    /\ UNCHANGED <<corpus, fs, main, out>>

\* parse_file(this_file, namespaces, element_name): `namespaces` is the loop's
\* variable, which no iteration has assigned when references is empty.
F_Fallback(w) ==
    /\ InFind(w, "fallback")
    /\ LET f == Top(w) IN
       IF ~f.nss.bound
       THEN Raise(w, wk[w], "UnboundLocalError")
       ELSE Call(w, [f EXCEPT !.ph = "fallbackparsed"],
                 ParseFrame(f.this_file, f.nss.v, f.name))
    /\ UNCHANGED <<corpus, fs, main, out>>

F_FallbackParsed(w) ==
    /\ InFind(w, "fallbackparsed")
    /\ LET f == Top(w)
           elements == wk[w].ret
           result == IF Len(elements) # 1 THEN NoneV ELSE elements[1]
       IN  Step(w, Popped([wk[w] EXCEPT !.calls =
                              Append(@, CallRecord(f, TRUE, result))],
                          result))
    /\ UNCHANGED <<corpus, fs, main, out>>

(***************************************************************************)
(* The pool                                                                *)
(***************************************************************************)
\* A worker takes the next file of p.map(parse_toplevel, filepaths).
TaskStart(w) ==
    /\ main.pc = "ingest"
    /\ wk[w].st = "idle"
    /\ pool.next <= Len(TopLevel(corpus))
    /\ wk' = [wk EXCEPT ![w].st = "busy", ![w].task = pool.next,
                        ![w].ret = NoneV,
                        ![w].stack = <<ParseFrame(TopLevel(corpus)[pool.next],
                                                  <<>>, NoFilter)>>]
    /\ pool' = [pool EXCEPT !.next = @ + 1]
    /\ UNCHANGED <<corpus, fs, main, out>>

\* parse_toplevel returns: the task's result goes back to the parent.
TaskReturn(w) ==
    /\ wk[w].st = "busy"
    /\ Len(wk[w].stack) = 0
    /\ pool' = [pool EXCEPT !.results[wk[w].task] = Succeeded(wk[w].ret),
                            !.arrived = Append(@, wk[w].task)]
    /\ wk' = [wk EXCEPT ![w].st = "idle", ![w].ret = NoneV]
    /\ UNCHANGED <<corpus, fs, main, out>>

WorkerStep(w) ==
    \/ TaskStart(w) \/ TaskReturn(w)
    \/ P_Load(w) \/ P_Element(w) \/ P_Base(w) \/ P_Property(w)
    \/ P_PropertyResolved(w) \/ P_TypeDef(w)
    \/ F_Start(w) \/ F_Wrap(w) \/ F_Exists(w) \/ F_Fetch(w) \/ F_Open(w)
    \/ F_Write(w) \/ F_WriteFirst(w) \/ F_WriteRest(w) \/ F_Parse(w)
    \/ F_Parsed(w) \/ F_Fallback(w) \/ F_FallbackParsed(w)


(***************************************************************************)
(* main: the ingestion                                                     *)
(***************************************************************************)
RECURSIVE Flatten(_)
Flatten(lists) ==
    IF Len(lists) = 0 THEN <<>> ELSE Head(lists) \o Flatten(Tail(lists))

\* The results in the order in which the tasks finished.
ArrivalOrder(p) == [k \in DOMAIN p.arrived |-> p.results[p.arrived[k]].value]

\* `out = p.map(parse_toplevel, filepaths)`: the list p.map returns holds the
\* result of filepaths[t] at index t, whichever worker ran the task and
\* whenever it finished.  arrived (the tasks in the order in which their
\* results reached the parent) is kept for the properties only.
MapResults(p) == [t \in DOMAIN p.results |-> p.results[t].value]

\* p.map returns when every task is done: it raises the first exception that
\* reached it if a task failed, else the results are concatenated in the
\* order of filepaths.
Join ==
    /\ main.pc = "ingest"
    /\ \A t \in DOMAIN pool.results : pool.results[t].done
    /\ \/ /\ \A t \in DOMAIN pool.results : pool.results[t].ok
          /\ main' = [main EXCEPT
                !.pc = "dedup",
                !.flat_list = Flatten(MapResults(pool))]
       \/ /\ \E t \in DOMAIN pool.results : ~pool.results[t].ok
          /\ main' = [main EXCEPT !.pc = "raised", !.exc = pool.first]
    /\ UNCHANGED <<corpus, fs, wk, pool, out>>

(***************************************************************************)
(* remove_old_schemas and the two sorts                                    *)
(***************************************************************************)
\* The dict key: item.namespace.split(".")[0] + item.name
SchemaKey(item) == NsRoot(item.namespace) \o item.name

\* A dict keeps its keys in the order of their first insertion and, for each
\* key, the value stored last.
remove_old_schemas(flat_list) ==
    LET n == Len(flat_list)
        First(j) == \A h \in 1..(j - 1) :
                       SchemaKey(flat_list[h]) # SchemaKey(flat_list[j])
        keys == SelectSeq([j \in 1..n |-> j], First)
        Last(j) == CHOOSE h \in j..n :
                      /\ SchemaKey(flat_list[h]) = SchemaKey(flat_list[j])
                      /\ \A g \in (h + 1)..n :
                            SchemaKey(flat_list[g]) # SchemaKey(flat_list[j])
    IN  [k \in 1..Len(keys) |-> flat_list[Last(keys[k])]]

\* The names of the model in the order of name.lower(); names that differ
\* only in case share a place.
LowerOrder ==
    << {""}, {"A", "a"}, {"AB"}, {"B"}, {"BC"}, {"C"}, {"D"}, {"E"},
       {"ServiceRoot"}, {"ServiceRootX"}, {"T"}, {"X"}, {"Y"}, {"Z"} >>

LowerRank(name) == CHOOSE r \in DOMAIN LowerOrder : name \in LowerOrder[r]

\* x.name.startswith("ServiceRoot")
StartsWithServiceRoot(name) == name \in {"ServiceRoot", "ServiceRootX"}

\* list.sort(key=...) is stable: an item goes after the items with a smaller
\* key and after the earlier items with the same key.
StableSort(list, keys) ==
    LET n == Len(list)
        Place(j) == 1 + Cardinality({h \in 1..n :
                          \/ keys[h] < keys[j]
                          \/ keys[h] = keys[j] /\ h < j})
    IN  [p \in 1..n |-> list[CHOOSE j \in 1..n : Place(j) = p]]

NameKeys(list) == [j \in 1..Len(list) |-> LowerRank(list[j].name)]
RootKeys(list) ==
    [j \in 1..Len(list) |->
        IF StartsWithServiceRoot(list[j].name) THEN 0 ELSE 1]

SortedForOutput(flat_list) ==
    LET byName == StableSort(flat_list, NameKeys(flat_list))
    IN  StableSort(byName, RootKeys(byName))

\* flat_list = remove_old_schemas(flat_list)
Dedup ==
    /\ main.pc = "dedup"
    /\ main' = [main EXCEPT !.pc = "sort",
                            !.flat_list = remove_old_schemas(@)]
    /\ UNCHANGED <<corpus, fs, wk, pool, out>>

\* flat_list.sort(name.lower()); flat_list.sort(not startswith("ServiceRoot"))
Sort ==
    /\ main.pc = "sort"
    /\ main' = [main EXCEPT !.pc = "abstract", !.i = 1,
                            !.flat_list = SortedForOutput(@)]
    /\ UNCHANGED <<corpus, fs, wk, pool, out>>

(***************************************************************************)
(* The abstract pass                                                       *)
(***************************************************************************)
\* A reference that the pass has pointed at the element idx of class_list.
ListRef(j) == [kind |-> "ListRef", idx |-> j]
Deref(L, v) == IF v.kind = "ListRef" THEN L[v.idx] ELSE v

RECURSIVE get_lowest_type(_)
get_lowest_type(this_class) ==
    IF this_class.kind # "EntityType" THEN this_class
    ELSE IF this_class.abstract THEN this_class
    ELSE IF IsNone(this_class.basetype) THEN this_class
    ELSE get_lowest_type(this_class.basetype)

\* Objects with a from_file attribute: all but None and the BaseType members.
HasFromFile(v) == v.kind \notin {"None", "BaseType"}

\* The loop of find_type_for_abstract from element j on.  abs.name on None
\* and .from_file on a BaseType member raise AttributeError.
RECURSIVE FindFrom(_, _, _)
FindFrom(class_list, abs, j) ==
    IF j > Len(class_list) THEN [exc |-> "", v |-> abs]
    ELSE LET lt == get_lowest_type(class_list[j])
             a == Deref(class_list, abs)
         IN  IF IsNone(a) THEN [exc |-> "AttributeError", v |-> abs]
             ELSE IF lt.name # a.name THEN FindFrom(class_list, abs, j + 1)
             ELSE IF ~HasFromFile(lt) \/ ~HasFromFile(a)
                  THEN [exc |-> "AttributeError", v |-> abs]
             ELSE IF lt.from_file = a.from_file
                  THEN [exc |-> "", v |-> ListRef(j)]
             ELSE FindFrom(class_list, abs, j + 1)

find_type_for_abstract_or_none(class_list, abs) ==
    LET r == FindFrom(class_list, abs, 1) IN
    IF r.exc = "" /\ r.v = abs THEN [r EXCEPT !.v = NoneV] ELSE r
find_type_for_abstract(class_list, abs) == FindFrom(class_list, abs, 1)

\* A place in the graph: the element j of the list and the path from it, a
\* sequence of steps ("base": .basetype, "prop" k: .properties[k].type).
Loc(j, path) == [j |-> j, path |-> path]
BaseStep == [s |-> "base", k |-> 0]
PropStep(k) == [s |-> "prop", k |-> k]
ContainedSlot == [s |-> "contained", k |-> 0]

RECURSIVE GetAt(_, _)
GetAt(node, path) ==
    IF Len(path) = 0 THEN node
    ELSE GetAt(IF Head(path).s = "base" THEN node.basetype
               ELSE node.properties[Head(path).k].type,
               Tail(path))

NodeAt(L, loc) == GetAt(L[loc.j], loc.path)

\* The node with the reference in `slot` of the node at `path` set to v.
RECURSIVE SetAt(_, _, _, _)
SetAt(node, path, slot, v) ==
    IF Len(path) = 0
    THEN IF slot.s = "prop"
         THEN [node EXCEPT !.properties[slot.k].type = v]
         ELSE [node EXCEPT !.contained_type = v]
    ELSE IF Head(path).s = "base"
         THEN [node EXCEPT !.basetype = SetAt(@, Tail(path), slot, v)]
         ELSE [node EXCEPT !.properties[Head(path).k].type =
                               SetAt(@, Tail(path), slot, v)]

SetRef(L, loc, slot, v) ==
    [L EXCEPT ![loc.j] = SetAt(@, loc.path, slot, v)]

\* [this_class] + this_class.basetype_flat, as places.
RECURSIVE ChainLocs(_, _)
ChainLocs(L, loc) ==
    LET n == NodeAt(L, loc) IN
    IF n.kind = "EntityType" /\ ~IsNone(n.basetype)
    THEN <<loc>> \o ChainLocs(L, Loc(loc.j, Append(loc.path, BaseStep)))
    ELSE <<loc>>

\* The place a reference held at `loc`, step `st`, leads to.
Target(L, loc, st) ==
    LET v == IF st.s = "contained" THEN NodeAt(L, loc).contained_type
             ELSE NodeAt(L, loc).properties[st.k].type
    IN  IF v.kind = "ListRef" THEN Loc(v.idx, <<>>)
        ELSE Loc(loc.j, Append(loc.path, st))

\* The first loop: every property of every EntityType of the chain gets
\* find_type_for_abstract(class_list, property.type).  S is the list and the
\* exception raised so far.
RECURSIVE FixChainProperties(_, _, _, _)
FixChainProperties(S, locs, c, k) ==
    IF S.exc # "" \/ c > Len(locs) THEN S
    ELSE LET n == NodeAt(S.L, locs[c]) IN
         IF n.kind # "EntityType" \/ k > Len(n.properties)
         THEN FixChainProperties(S, locs, c + 1, 1)
         ELSE LET r == find_type_for_abstract(S.L, n.properties[k].type) IN
              IF r.exc # "" THEN [S EXCEPT !.exc = r.exc]
              ELSE FixChainProperties(
                      [S EXCEPT !.L = SetRef(@, locs[c], PropStep(k), r.v)],
                      locs, c, k + 1)

\* contained_type = find_type_for_abstract(class_list, contained_type)
FixContained(S, loc) ==
    LET r == find_type_for_abstract(S.L, NodeAt(S.L, loc).contained_type) IN
    IF r.exc # "" THEN [S EXCEPT !.exc = r.exc]
    ELSE [S EXCEPT !.L = SetRef(@, loc, ContainedSlot, r.v)]

RECURSIVE instantiate_abstract_classes(_, _, _)
RECURSIVE RecurseChain(_, _, _, _, _)

\* The second loop: the recursion into every property's type, and the
\* contained type of a Collection found in the chain.
RecurseChain(S, locs, c, k, depth) ==
    IF S.exc # "" \/ c > Len(locs) THEN S
    ELSE LET n == NodeAt(S.L, locs[c]) IN
         IF n.kind = "EntityType" /\ k <= Len(n.properties)
         THEN RecurseChain(
                 instantiate_abstract_classes(
                     S, Target(S.L, locs[c], PropStep(k)), depth + 1),
                 locs, c, k + 1, depth)
         ELSE IF n.kind = "Collection"
         THEN RecurseChain(FixContained(S, locs[c]), locs, c + 1, 1, depth)
         ELSE RecurseChain(S, locs, c + 1, 1, depth)

instantiate_abstract_classes(S, loc, depth) ==
    IF S.exc # "" THEN S
    ELSE IF depth > RecursionLimit THEN [S EXCEPT !.exc = "RecursionError"]
    ELSE LET this_class == NodeAt(S.L, loc) IN
         IF this_class.kind = "EntityType"
         THEN LET locs == ChainLocs(S.L, loc) IN
              RecurseChain(FixChainProperties(S, locs, 1, 1), locs, 1, 1,
                           depth)
         ELSE IF this_class.kind = "Collection"
         THEN FixContained(S, loc)
         ELSE S

\* One turn of `for element in flat_list`.
AbstractPass ==
    /\ main.pc = "abstract"
    /\ IF main.i > Len(main.flat_list)
       THEN main' = [main EXCEPT !.pc = "wipe"]
       ELSE LET S == instantiate_abstract_classes(
                        [L |-> main.flat_list, exc |-> ""],
                        Loc(main.i, <<>>), 1)
            IN  main' = [main EXCEPT
                           !.flat_list = S.L,
                           !.i = @ + 1,
                           !.pc = IF S.exc # "" THEN "raised" ELSE @,
                           !.exc = S.exc]
    /\ UNCHANGED <<corpus, fs, wk, pool, out>>

(***************************************************************************)
(* The proto backend                                                       *)
(***************************************************************************)
\* os.path.splitext(os.path.basename(from_file))[0]
Stems == {"fx", "fy", "fa", "fb", "fc", "OemAccountService"}
Stem(path) == CHOOSE st \in Stems : st \o ".xml" = path

get_grpc_filename_from_entity(entity) ==
    Stem(entity.from_file) \o "/" \o entity.name \o ".proto"

basetype_to_grpc(basetype) ==
    CASE basetype.name = "STRING" -> [text |-> "string", imports |-> <<>>]
      [] basetype.name = "BOOLEAN" -> [text |-> "bool", imports |-> <<>>]
      [] basetype.name = "DECIMAL" -> [text |-> "double", imports |-> <<>>]
      [] basetype.name = "INT64" -> [text |-> "int64", imports |-> <<>>]
      [] basetype.name = "INT32" -> [text |-> "int32", imports |-> <<>>]
      [] basetype.name = "TIME" ->
            [text |-> "google.protobuf.Timestamp",
             imports |-> <<"google/protobuf/timestamp.proto">>]
      [] basetype.name = "DURATION" ->
            [text |-> "google.protobuf.Duration",
             imports |-> <<"google/protobuf/duration.proto">>]
      [] basetype.name = "GUID" -> [text |-> "string", imports |-> <<>>]

\* The text and the imports of a type, or the AttributeError that
\* get_grpc_filename_from_entity(None) raises.  L is flat_list, which the
\* references the abstract pass rewrote point into.
RECURSIVE get_grpc_property_type_string(_, _, _)
get_grpc_property_type_string(L, object_type, this_package) ==
    LET t == Deref(L, object_type) IN
    CASE t.kind = "BaseType" ->
            [exc |-> ""] @@ basetype_to_grpc(t)
      [] t.kind = "TypeDef" ->
            get_grpc_property_type_string(L, t.basetype, this_package)
      [] t.kind = "Collection" ->
            LET r == get_grpc_property_type_string(L, t.contained_type,
                                                   this_package)
            IN  IF r.exc # "" THEN r
                ELSE [r EXCEPT !.text = "repeated " \o @]
      [] t.kind = "None" ->
            [exc |-> "AttributeError", text |-> "", imports |-> <<>>]
      [] OTHER ->
            [exc |-> "",
             text |-> IF this_package = NsRoot(t.namespace) THEN t.name
                      ELSE "." \o NsRoot(t.namespace) \o "." \o t.name,
             imports |-> <<get_grpc_filename_from_entity(t)>>]

FieldLine(type, name, index) ==
    [line |-> "field", type |-> type, name |-> name, index |-> index]
CommentLine(text) ==
    [line |-> "comment", type |-> "", name |-> text, index |-> 0]
BlankLine == [line |-> "blank", type |-> "", name |-> "", index |-> 0]

Generated(lines, imports, index) ==
    [exc |-> "", lines |-> lines, imports |-> imports, index |-> index]

\* Every navigation property is a reference.
EveryNavigation(property_obj) == property_obj.kind = "NavigationProperty"

\* isinstance(property_obj, NavigationProperty) and not
\* (property_obj.contains_target or property_obj.auto_expand)
RenderedAsReference(property_obj) ==
    /\ property_obj.kind = "NavigationProperty"
    /\ ~(property_obj.contains_target \/ property_obj.auto_expand)

\* The loop over typedef.properties from property k on; g is what has been
\* generated so far.
RECURSIVE GenerateProperties(_, _, _, _, _)
GenerateProperties(L, properties, k, g, package_name) ==
    IF g.exc # "" \/ k > Len(properties) THEN g
    ELSE LET property_obj == properties[k] IN
         IF RenderedAsReference(property_obj)
         THEN GenerateProperties(L, properties, k + 1,
                 Generated(
                    Append(g.lines,
                       FieldLine(IF Deref(L, property_obj.type).kind
                                       = "Collection"
                                 THEN "repeated " \o "NavigationReference"
                                 ELSE "NavigationReference",
                                 property_obj.name, g.index)),
                    Append(g.imports, "NavigationReference.proto"),
                    g.index + 1),
                 package_name)
         ELSE LET r == get_grpc_property_type_string(L, property_obj.type,
                                                     package_name)
              IN  IF r.exc # "" THEN [g EXCEPT !.exc = r.exc]
                  ELSE GenerateProperties(L, properties, k + 1,
                          Generated(
                             Append(g.lines,
                                FieldLine(r.text, property_obj.name, g.index)),
                             g.imports \o r.imports,
                             g.index + 1),
                          package_name)

\* `text, includes, property_index = generate_properties_for_entity(base..)`:
\* the own properties are numbered from where the base's stopped.
IndexRestarted(b, index_start) == index_start
IndexAfterBase(b, index_start) == b.index

RECURSIVE generate_properties_for_entity(_, _, _, _, _)
generate_properties_for_entity(L, typedef, index_start, message_name, package_name) ==
    IF typedef.kind # "EntityType" THEN Generated(<<>>, <<>>, index_start)
    ELSE LET b == IF ~IsNone(typedef.basetype)
                  THEN generate_properties_for_entity(L, typedef.basetype,
                          index_start, message_name, package_name)
                  ELSE Generated(<<>>, <<>>, index_start)
             property_index == IndexAfterBase(b, index_start)
             header ==
                  IF Len(typedef.properties) # 0
                  THEN (IF property_index # 1 THEN <<BlankLine>> ELSE <<>>)
                       \o <<CommentLine("// from "
                               \o NsString(typedef.namespace) \o "."
                               \o typedef.name)>>
                  ELSE <<>>
         IN  IF b.exc # "" THEN b
             ELSE GenerateProperties(L, typedef.properties, 1,
                     Generated(b.lines \o header, b.imports, property_index),
                     package_name)

\* The body of the file generate_grpc_for_type writes for typedef.
ProtoBody(L, typedef) ==
    CASE typedef.kind = "EntityType" ->
            generate_properties_for_entity(L, typedef, 1, typedef.name,
                                           NsRoot(typedef.namespace))
      [] typedef.kind = "Enum" ->
            Generated([j \in 1..Len(typedef.values) |->
                          FieldLine("", typedef.name \o "_"
                                        \o typedef.values[j], j - 1)],
                      <<>>, Len(typedef.values))
      [] typedef.kind = "Complex" ->
            Generated(<<FieldLine("map<string, google.protobuf.Any>",
                                  typedef.name, 1)>>,
                      <<"google/protobuf/any.proto">>, 2)
      [] OTHER -> Generated(<<>>, <<>>, 1)

(***************************************************************************)
(* GRPC_DIR                                                                *)
(***************************************************************************)
\* The output tree: whether GRPC_DIR exists, its sub-directories, its files
\* (path -> what was written), the order the files were created in, the
\* conversion-code file (which is outside GRPC_DIR), folders_added_to_grpc
\* and the root meson.build;
\* prior names the tree the run found and wiped tells that
\* clear_and_make_output_dirs has returned.
NoOutput ==
    [exists |-> FALSE, dirs |-> {}, files |-> {}, order |-> <<>>,
     cpp |-> [exists |-> FALSE, handlers |-> <<>>], folders |-> <<>>,
     root_manifest |-> <<>>,
     prior |-> "absent", wiped |-> FALSE]

\* sorted(set(required_imports), key=str.casefold): the imports a file names
\* are the set of the members of required_imports.
FileRecord(path, package, required_imports, lines) ==
    [path |-> path, package |-> package,
     imports |-> {required_imports[k] : k \in DOMAIN required_imports},
     lines |-> lines]

\* open(path, "w") and write: the file is created or replaced.
WithFile(o, rec) ==
    [o EXCEPT !.files = {f \in @ : f.path # rec.path} \cup {rec},
              !.order = IF \E f \in o.files : f.path = rec.path THEN @
                        ELSE Append(@, rec.path)]

\* write_meson_file_for_proto: dirpath = os.path.relpath(inputpath, GRPC_DIR)
\* is the path of the file itself, which is never ".".
write_meson_file_for_proto(o, inputpath) ==
    [o EXCEPT !.folders = IF inputpath # "." THEN Append(@, inputpath) ELSE @]

\* A file a previous run left in GRPC_DIR.
StaleFile(path) == FileRecord(path, "stale", <<>>, <<>>)

\* What the run finds at GRPC_DIR: nothing, an empty directory, or the tree
\* of a previous run with files, sub-directories and a meson.build.
PriorTrees == {"absent", "empty", "full"}

PriorOutput(p) ==
    CASE p = "absent" -> NoOutput
      [] p = "empty" -> [NoOutput EXCEPT !.exists = TRUE, !.prior = p]
      [] p = "full" ->
            [NoOutput EXCEPT
                !.exists = TRUE, !.prior = p,
                !.dirs = {"proto_out", "old", "fa"},
                !.files = {StaleFile("fa/A.proto"), StaleFile("old/Z.proto"),
                           StaleFile("top.proto"),
                           StaleFile("proto_out/Z.pb.cc")},
                !.order = <<"fa/A.proto", "old/Z.proto", "top.proto">>,
                !.root_manifest = [q \in {"old/Z.proto"} |-> 1]]

\* os.remove for the files of GRPC_DIR and shutil.rmtree for its
\* directories: no entry is left.
RemovedFilesOnly(o) ==
    [o EXCEPT !.files = {}, !.order = <<>>, !.root_manifest = <<>>]
RemovedEntries(o) ==
    [o EXCEPT !.files = {}, !.dirs = {}, !.order = <<>>,
              !.root_manifest = <<>>]

\* clear_and_make_output_dirs: every entry of GRPC_DIR is removed, or
\* GRPC_DIR is made; then PROTO_OUT_DIR, which is gone with the entries or
\* was never there, is made.
ClearAndMakeOutputDirs ==
    /\ main.pc = "wipe"
    /\ out' = [RemovedEntries(out) EXCEPT !.exists = TRUE,
                                          !.dirs = @ \cup {"proto_out"},
                                          !.wiped = TRUE]
    /\ main' = [main EXCEPT !.pc = "generate", !.i = 1]
    /\ UNCHANGED <<corpus, fs, wk, pool>>

\* One turn of `for thistype in flat_list: generate_grpc_for_type(thistype)`.
GenerateGrpcForType ==
    /\ main.pc = "generate"
    /\ IF main.i > Len(main.flat_list)
       THEN main' = [main EXCEPT !.pc = "fixed"] /\ UNCHANGED out
       ELSE LET typedef == main.flat_list[main.i]
                filepath == get_grpc_filename_from_entity(typedef)
                made == [out EXCEPT !.dirs = @ \cup {Stem(typedef.from_file)}]
                g == ProtoBody(main.flat_list, typedef)
            IN  IF g.exc # ""
                THEN /\ main' = [main EXCEPT !.pc = "raised", !.exc = g.exc]
                     /\ out' = made
                ELSE /\ main' = [main EXCEPT !.i = @ + 1]
                     /\ out' = write_meson_file_for_proto(
                                  WithFile(made,
                                     FileRecord(filepath,
                                                NsRoot(typedef.namespace),
                                                g.imports, g.lines)),
                                  filepath)
    /\ UNCHANGED <<corpus, fs, wk, pool>>

\* write_fixed_messages: NavigationReference.proto
WriteFixedMessages ==
    /\ main.pc = "fixed"
    /\ out' = write_meson_file_for_proto(
                 WithFile(out, FileRecord("NavigationReference.proto", "", <<>>,
                                 <<FieldLine("string", "id", 1)>>)),
                 "NavigationReference.proto")
    /\ main' = [main EXCEPT !.pc = "service_root"]
    /\ UNCHANGED <<corpus, fs, wk, pool>>

\* [x for x in flat_list if x.name == "ServiceRoot"]
ServiceRoots(flat_list) ==
    SelectSeq(flat_list, LAMBDA x : x.name = "ServiceRoot")

\* `if len(service_root) != 1: raise Exception(...)`
OnlyWithoutRoot(service_root) == Len(service_root) = 0
NotUnique(service_root) == Len(service_root) # 1

\* A path is the sequence of its segments; the code joins them with "_".
RECURSIVE PathString(_)
PathString(path) ==
    IF Len(path) = 0 THEN ""
    ELSE IF Len(path) = 1 THEN path[1]
    ELSE path[1] \o "_" \o PathString(Tail(path))

\* path.split("_")[-1]
LastSegment(path) == IF Len(path) = 0 THEN "" ELSE path[Len(path)]

MessageLine(name) ==
    [line |-> "message", type |-> "", name |-> name, index |-> 0]
RpcLine(name, returns) ==
    [line |-> "rpc", type |-> returns, name |-> name, index |-> 0]

\* `for element_index, element in enumerate(collectionlist): ... break`: the
\* id field of the first collection only, named after the path's last
\* segment and numbered element_index + 3.
IdFieldPerCollection(path, collectionlist) ==
    [k \in DOMAIN collectionlist |->
        FieldLine("NavigationReference", LastSegment(path) \o "Id", k - 1 + 3)]
IdFields(path, collectionlist) ==
    IF Len(collectionlist) = 0 THEN <<>>
    ELSE <<FieldLine("NavigationReference", LastSegment(path) \o "Id",
                     0 + 3)>>

\* The message Get_<path>_FilterSpec.
FilterSpec(path, collectionlist) ==
    <<MessageLine("Get_" \o PathString(path) \o "_FilterSpec"),
      FieldLine("string", "expand", 1),
      FieldLine("repeated string", "filter", 2)>>
    \o IdFields(path, collectionlist)

\* body, header, messages and the exception that ended the call.
NoProperties == [exc |-> "", body |-> <<>>, header |-> <<>>, messages |-> <<>>]

Extended(a, b) ==
    [exc |-> IF a.exc # "" THEN a.exc ELSE b.exc,
     body |-> a.body \o b.body, header |-> a.header \o b.header,
     messages |-> a.messages \o b.messages]

RECURSIVE get_properties_for_service_root(_, _, _, _, _, _)
RECURSIVE RootNavigation(_, _, _, _, _, _, _)

\* The loop over entity.properties from property k on.
RootNavigation(L, entity, path, collectionlist, frames, k, acc) ==
    IF acc.exc # "" \/ k > Len(entity.properties) THEN acc
    ELSE LET property_obj == entity.properties[k] IN
         IF property_obj.kind # "NavigationProperty"
         THEN RootNavigation(L, entity, path, collectionlist, frames, k + 1,
                             acc)
         ELSE RootNavigation(L, entity, path, collectionlist, frames, k + 1,
                 Extended(
                    [acc EXCEPT !.body = Append(@, CommentLine("// from "
                          \o NsString(entity.namespace) \o "."
                          \o entity.name))],
                    get_properties_for_service_root(L, property_obj.type,
                        Append(path, property_obj.name), 0, collectionlist,
                        frames + 1)))

\* frames is the number of nested calls, which Python bounds.
get_properties_for_service_root(L, ref, path, depth, collectionlist, frames) ==
    LET entity == Deref(L, ref) IN
    IF frames > RecursionLimit
    THEN [NoProperties EXCEPT !.exc = "RecursionError"]
    ELSE CASE entity.kind = "Collection" ->
                get_properties_for_service_root(L, entity.contained_type, path,
                    0, Append(collectionlist, path), frames + 1)
           [] entity.kind = "TypeDef" ->
                get_properties_for_service_root(L, entity.basetype, path, 0,
                    collectionlist, frames + 1)
           [] entity.kind = "EntityType" ->
                LET p == IF path = <<>> THEN <<"ServiceRoot">> ELSE path
                    own == IF depth = 0
                           THEN [exc |-> "",
                                 body |-> <<RpcLine("Get_" \o PathString(p),
                                              NsRoot(entity.namespace) \o "."
                                              \o entity.name)>>,
                                 header |->
                                     <<get_grpc_filename_from_entity(entity)>>,
                                 messages |-> FilterSpec(p, collectionlist)]
                           ELSE NoProperties
                    base == IF ~IsNone(entity.basetype)
                            THEN get_properties_for_service_root(L,
                                     entity.basetype, p, depth + 1,
                                     collectionlist, frames + 1)
                            ELSE NoProperties
                IN  RootNavigation(L, entity, p, collectionlist, frames, 1,
                                   Extended(own, base))
           [] OTHER -> NoProperties

\* write_service_root: the exception when the root is not unique; else
\* entry.proto is opened and, unless get_properties_for_service_root
\* raises, gets the imports, the filter-spec messages and the service.
WriteServiceRoot ==
    /\ main.pc = "service_root"
    /\ IF NotUnique(ServiceRoots(main.flat_list))
       THEN /\ main' = [main EXCEPT !.pc = "raised", !.exc = "Exception"]
            /\ UNCHANGED out
       ELSE LET g == get_properties_for_service_root(main.flat_list,
                        ServiceRoots(main.flat_list)[1], <<>>, 0, <<>>, 1)
            IN  IF g.exc # ""
                THEN /\ main' = [main EXCEPT !.pc = "raised", !.exc = g.exc]
                     /\ out' = WithFile(out, FileRecord("entry.proto",
                                                "redfish_v1", <<>>, <<>>))
                ELSE /\ main' = [main EXCEPT !.pc = "cpp"]
                     /\ out' = write_meson_file_for_proto(
                                  WithFile(out,
                                     FileRecord("entry.proto", "redfish_v1",
                                        Append(g.header,
                                               "NavigationReference.proto"),
                                        g.messages \o g.body)),
                                  "entry.proto")
    /\ UNCHANGED <<corpus, fs, wk, pool>>

\* str.lower() on the names of the model.
Lower(name) ==
    CASE name = "" -> ""
      [] name = "sroot" -> "sroot"
      [] name = "ServiceRoot" -> "serviceroot"
      [] name = "Id" -> "id"
      [] name = "Name" -> "name"
      [] name = "Count" -> "count"
      [] name = "Link" -> "link"
      [] name = "Item" -> "item"
      [] name = "Base" -> "base"
      [] name = "Chassis" -> "chassis"
      [] name = "Subs" -> "subs"
      [] name = "P" -> "p"
      [] name = "Q" -> "q"
      [] name = "R" -> "r"

\* One piece of the generated JSON walk: what it does, the field of the
\* response it fills ("*" is the response value itself) and the level of
\* the JSON value it reads.  The indentation is not modelled.
Stmt(op, field, val_level) == [op |-> op, field |-> field, level |-> val_level]

NoCpp == [exc |-> "", body |-> <<>>]

CppScalar(basetype) ==
    CASE basetype.name \in {"STRING", "GUID"} -> <<"std::string">>
      [] basetype.name = "BOOLEAN" -> <<"bool">>
      [] basetype.name = "DECIMAL" -> <<"double">>
      [] basetype.name \in {"INT64", "INT32"} -> <<"int64_t">>
      [] basetype.name \in {"TIME", "DURATION"} -> <<>>

\* A collection of references is looped over only with expand_references.
LoopOnlyWithExpandReferences(property_node, isCollection) ==
    IF property_node.auto_expand \/ property_node.contains_target
    THEN "inline"
    ELSE IF property_node.expand_references /\ isCollection THEN "loop"
    ELSE "single"

\* The branch get_cpp_for_type takes for a NavigationProperty: the nested
\* walk, the loop over the references of an array (the elif for
\* expand_references and the elif for every other Collection emit the same
\* text), or the one reference.
NavigationCase(property_node, isCollection) ==
    IF property_node.auto_expand \/ property_node.contains_target
    THEN "inline"
    ELSE IF property_node.expand_references /\ isCollection THEN "loop"
    ELSE IF isCollection THEN "loop"
    ELSE "single"

RECURSIVE get_cpp_for_type(_, _, _, _, _, _)
RECURSIVE CppProperties(_, _, _, _, _, _)

\* `while property_obj is not None: for property_node in
\* property_obj.properties`, from property k of the layer property_obj on;
\* then property_obj = property_obj.basetype, None for a Complex.
CppProperties(L, property_obj, k, val_level, frames, acc) ==
    IF acc.exc # "" THEN acc
    ELSE IF property_obj.kind \notin {"EntityType"}
    THEN [acc EXCEPT !.exc = "AttributeError"]
    ELSE IF k > Len(property_obj.properties)
    THEN LET b == property_obj.basetype IN
         IF IsNone(b) \/ b.kind = "Complex" THEN acc
         ELSE CppProperties(L, b, 1, val_level, frames, acc)
    ELSE LET property_node == property_obj.properties[k]
             key == Stmt("key", property_node.name, val_level)
             isCollection ==
                 Deref(L, property_node.type).kind = "Collection"
             this ==
                 IF property_node.kind = "NavigationProperty"
                 THEN IF NavigationCase(property_node, isCollection)
                            = "inline"
                      THEN get_cpp_for_type(L, property_node.name,
                               property_node.type, val_level, FALSE,
                               frames + 1)
                      ELSE IF NavigationCase(property_node, isCollection)
                                = "loop"
                      THEN [NoCpp EXCEPT !.body =
                              <<Stmt("NavigationReferences",
                                     Lower(property_node.name),
                                     val_level + 1)>>]
                      ELSE [NoCpp EXCEPT !.body =
                              <<Stmt("NavigationReference",
                                     Lower(property_node.name), val_level)>>]
                 ELSE get_cpp_for_type(L, property_node.name,
                          property_node.type, val_level, FALSE, frames + 1)
         IN  CppProperties(L, property_obj, k + 1, val_level, frames,
                [exc |-> this.exc,
                 body |-> Append(acc.body, key) \o this.body])

get_cpp_for_type(L, name, ref, val_level, main_object_available, frames) ==
    LET property_obj == Deref(L, ref)
        field == IF main_object_available THEN "*" ELSE Lower(name)
    IN  IF frames > RecursionLimit
        THEN [NoCpp EXCEPT !.exc = "RecursionError"]
        ELSE CASE property_obj.kind = "TypeDef" ->
                    get_cpp_for_type(L, name, property_obj.basetype,
                                     val_level, FALSE, frames + 1)
               [] property_obj.kind = "BaseType" ->
                    [NoCpp EXCEPT !.body =
                        [j \in DOMAIN CppScalar(property_obj) |->
                            Stmt(CppScalar(property_obj)[j], field,
                                 val_level)]]
               [] property_obj.kind = "Collection" ->
                    LET r == get_cpp_for_type(L, name,
                                 property_obj.contained_type, val_level + 1,
                                 TRUE, frames + 1)
                    IN  [r EXCEPT !.body =
                            <<Stmt("array", Lower(name), val_level + 1)>>
                            \o @]
               [] property_obj.kind = "EntityType" ->
                    CppProperties(L, property_obj, 1, val_level + 1, frames,
                        [NoCpp EXCEPT !.body =
                            <<Stmt("object", field, val_level + 1)>>])
               [] OTHER -> NoCpp

\* The uri a handler requests: the id field of the request below a
\* collection, the static path otherwise.
HandlerUri(path, url_path, collectionlist) ==
    IF Len(collectionlist) # 0
    THEN [from |-> "request", field |-> Lower(LastSegment(path)) \o "id"]
    ELSE [from |-> "static", field |-> url_path]

RECURSIVE generate_cpp_for_entity(_, _, _, _, _, _, _)
RECURSIVE CppNavigation(_, _, _, _, _, _, _, _)

\* The loop over entity.properties from property k on.
CppNavigation(L, entity, path, url_path, collectionlist, frames, k, acc) ==
    IF acc.exc # "" \/ k > Len(entity.properties) THEN acc
    ELSE LET property_obj == entity.properties[k]
             r == IF property_obj.kind # "NavigationProperty"
                  THEN [exc |-> "", handlers |-> <<>>]
                  ELSE generate_cpp_for_entity(L, property_obj.type,
                           Append(path, property_obj.name),
                           url_path \o "/" \o property_obj.name, 0,
                           collectionlist, frames + 1)
         IN  CppNavigation(L, entity, path, url_path, collectionlist, frames,
                k + 1,
                [exc |-> r.exc, handlers |-> acc.handlers \o r.handlers])

generate_cpp_for_entity(L, ref, path, url_path, inherit_depth, collectionlist, frames) ==
    LET entity == Deref(L, ref)
        none == [exc |-> "", handlers |-> <<>>]
    IN  IF frames > RecursionLimit
        THEN [none EXCEPT !.exc = "RecursionError"]
        ELSE CASE entity.kind = "Collection" ->
                    generate_cpp_for_entity(L, entity.contained_type, path,
                        url_path, 0, Append(collectionlist, path), frames + 1)
               [] entity.kind = "TypeDef" ->
                    generate_cpp_for_entity(L, entity.basetype, path,
                        url_path, 0, collectionlist, frames + 1)
               [] entity.kind = "EntityType" ->
                    LET p == IF path = <<>> THEN <<"ServiceRoot">> ELSE path
                        walk == get_cpp_for_type(L, "sroot", entity, 0, TRUE,
                                                 frames + 1)
                        own ==
                            IF inherit_depth # 0 THEN none
                            ELSE [exc |-> walk.exc,
                                  handlers |->
                                    <<[name |-> "Get_" \o PathString(p),
                                       request |-> "Get_" \o PathString(p)
                                                   \o "_FilterSpec",
                                       response |->
                                           NsRoot(entity.namespace) \o "::"
                                           \o entity.name,
                                       uri |-> HandlerUri(p, url_path,
                                                          collectionlist),
                                       body |-> walk.body]>>]
                        base ==
                            IF own.exc # "" \/ IsNone(entity.basetype)
                            THEN own
                            ELSE LET b == generate_cpp_for_entity(L,
                                            entity.basetype, p, url_path,
                                            inherit_depth + 1, collectionlist,
                                            frames + 1)
                                 IN  [exc |-> b.exc,
                                      handlers |-> own.handlers
                                                   \o b.handlers]
                    IN  CppNavigation(L, entity, p, url_path, collectionlist,
                                      frames, 1, base)
               [] OTHER -> none

\* write_cpp_code: the exception when the root is not unique; else
\* grpc_defs.hpp is opened and, unless generate_cpp_for_entity raises, gets
\* the handlers.
WriteCppCode ==
    /\ main.pc = "cpp"
    /\ IF NotUnique(ServiceRoots(main.flat_list))
       THEN /\ main' = [main EXCEPT !.pc = "raised", !.exc = "Exception"]
            /\ UNCHANGED out
       ELSE LET g == generate_cpp_for_entity(main.flat_list,
                        ServiceRoots(main.flat_list)[1], <<>>, "/redfish/v1",
                        0, <<>>, 1)
            IN  IF g.exc # ""
                THEN /\ main' = [main EXCEPT !.pc = "raised", !.exc = g.exc]
                     /\ out' = [out EXCEPT !.cpp = [exists |-> TRUE,
                                                    handlers |-> <<>>]]
                ELSE /\ main' = [main EXCEPT !.pc = "meson"]
                     /\ out' = [out EXCEPT !.cpp = [exists |-> TRUE,
                                                handlers |-> g.handlers]]
    /\ UNCHANGED <<corpus, fs, wk, pool>>

\* sorted(folders_added_to_grpc), as the number of entries of each path.
SortedFolders(folders) ==
    [p \in {folders[k] : k \in DOMAIN folders} |->
        Cardinality({k \in DOMAIN folders : folders[k] = p})]

\* write_meson_root_config: meson.build gets one entry per member of
\* sorted(folders_added_to_grpc).
WriteMesonRootConfig ==
    /\ main.pc = "meson"
    /\ out' = [out EXCEPT !.root_manifest = SortedFolders(out.folders)]
    /\ main' = [main EXCEPT !.pc = "protoc", !.i = 1]
    /\ UNCHANGED <<corpus, fs, wk, pool>>

\* subprocess.check_output(["protoc", ...]) on the next .proto file of
\* GRPC_DIR: it returns, or raises CalledProcessError.
Protoc ==
    /\ main.pc = "protoc"
    /\ IF main.i > Len(out.order)
       THEN main' = [main EXCEPT !.pc = "done"]
       ELSE \/ main' = [main EXCEPT !.i = @ + 1]
            \/ main' = [main EXCEPT !.pc = "raised",
                                    !.exc = "CalledProcessError"]
    /\ UNCHANGED <<corpus, fs, wk, pool, out>>

Init ==
    /\ corpus \in Corpora
    /\ fs = [p \in Paths |-> IF p \in OnDisk(corpus) THEN FileOf(p)
                              ELSE NoFile]
    /\ wk = [w \in Workers |-> IdleWorker]
    /\ pool = [next |-> 1, first |-> "", arrived |-> <<>>,
               results |-> [t \in 1..Len(TopLevel(corpus)) |-> Pending]]
    /\ main = [pc |-> "ingest", flat_list |-> <<>>, exc |-> "", i |-> 1]
    /\ out \in {PriorOutput(p) : p \in PriorTrees}

Next ==
    \/ \E w \in Workers : WorkerStep(w)
    \/ Join
    \/ Dedup
    \/ Sort
    \/ AbstractPass
    \/ ClearAndMakeOutputDirs
    \/ GenerateGrpcForType
    \/ WriteFixedMessages
    \/ WriteServiceRoot
    \/ WriteCppCode
    \/ WriteMesonRootConfig
    \/ Protoc

Spec == Init /\ [][Next]_vars

(***************************************************************************)
(* What the properties speak about                                         *)
(***************************************************************************)
\* The merged list as p.map returned it, and the list the abstract pass is
\* given: deduplicated and sorted.
Merged == Flatten([t \in DOMAIN pool.results |-> pool.results[t].value])
Deduplicated == remove_old_schemas(Merged)
PrePass == SortedForOutput(Deduplicated)

Ingested == main.pc \notin {"ingest", "raised"}
PassDone ==
    main.pc \in {"wipe", "generate", "fixed", "service_root", "cpp", "meson",
                 "protoc", "done"}

\* The references reachable from node n of list L: each with the kind of
\* the holder (a property, a Collection, a TypeDef) and the node it points
\* at.  A base type is followed but is not a reference.
RECURSIVE RefTargets(_, _, _)
RefTargets(L, n, fuel) ==
    IF fuel = 0 THEN {}
    ELSE CASE n.kind = "EntityType" ->
                RefTargets(L, n.basetype, fuel - 1)
                \cup UNION { LET t == Deref(L, n.properties[k].type) IN
                             {[via |-> n.properties[k].kind, t |-> t]}
                             \cup RefTargets(L, t, fuel - 1)
                             : k \in DOMAIN n.properties }
           [] n.kind = "Collection" ->
                LET t == Deref(L, n.contained_type) IN
                {[via |-> "Collection", t |-> t]} \cup RefTargets(L, t, fuel - 1)
           [] n.kind = "TypeDef" ->
                LET t == Deref(L, n.basetype) IN
                {[via |-> "TypeDef", t |-> t]} \cup RefTargets(L, t, fuel - 1)
           [] OTHER -> {}

ListRefTargets(L) ==
    UNION {RefTargets(L, L[j], RecursionLimit) : j \in DOMAIN L}

IsAbstract(t) == t.kind = "EntityType" /\ t.abstract

\* An element of L whose base chain ends at a node with a's name and origin
\* document.
MatchesAbstract(c, a) ==
    LET lt == get_lowest_type(c) IN
    lt.kind = "EntityType" /\ lt.name = a.name /\ lt.from_file = a.from_file

HasConcrete(L, a) ==
    \E j \in DOMAIN L :
        L[j].kind = "EntityType" /\ ~L[j].abstract /\ MatchesAbstract(L[j], a)

(***************************************************************************)
(* C1                                                                      *)
(***************************************************************************)
\* C1: once the abstract pass has run over every element of the merged list,
\* no Property, NavigationProperty or Collection reference reachable from a
\* list element points at an abstract EntityType for which the list holds a
\* concrete type whose base chain ends at it.
C1_NoAbstractReferenceLeft ==
    PassDone =>
        \A r \in ListRefTargets(main.flat_list) :
            r.via \in {"Property", "NavigationProperty", "Collection"}
                => ~(IsAbstract(r.t) /\ HasConcrete(main.flat_list, r.t))

(***************************************************************************)
(* C3                                                                      *)
(***************************************************************************)
\* (first segment of the namespace, type name)
Pair(item) == <<NsRoot(item.namespace), item.name>>

\* C3: remove_old_schemas returns exactly one entry for each distinct pair
\* (first namespace segment, type name) of its input, and that entry is the
\* last input definition with that pair.
C3_OneEntryPerPair ==
    main.pc = "sort" =>
        /\ \A j \in DOMAIN Merged :
              Cardinality({k \in DOMAIN main.flat_list :
                              Pair(main.flat_list[k]) = Pair(Merged[j])}) = 1
        /\ \A k \in DOMAIN main.flat_list :
              \E j \in DOMAIN Merged :
                 /\ Merged[j] = main.flat_list[k]
                 /\ \A h \in (j + 1)..Len(Merged) :
                       Pair(Merged[h]) # Pair(Merged[j])

(***************************************************************************)
(* C4                                                                      *)
(***************************************************************************)
\* C4: find_element_in_scope never raises for a name that cannot be
\* resolved, whatever the scope: no task ends with the exception that the
\* fallback of find_element_in_scope raises.
C4_ResolverNeverRaises ==
    \A t \in DOMAIN pool.results : pool.results[t].exc # "UnboundLocalError"

(***************************************************************************)
(* C5                                                                      *)
(***************************************************************************)
HasUnresolved(L) == \E r \in ListRefTargets(L) : IsNone(r.t)

\* C5: when a property type, a TypeDef underlying type or a Collection
\* contained type of the merged list is unresolved, neither the abstract
\* pass nor a backend raises.
C5_UnresolvedIsNotFatal ==
    (main.pc # "ingest" /\ HasUnresolved(main.flat_list))
        => ~(main.pc = "raised" /\ main.exc = "AttributeError")

(***************************************************************************)
(* C8                                                                      *)
(***************************************************************************)
AllTasksDone == \A t \in DOMAIN pool.results : pool.results[t].done

FetchedOk(p) ==
    \E w \in Workers : \E k \in DOMAIN wk[w].fetched :
        wk[w].fetched[k].ok /\ UriBasename(wk[w].fetched[k].uri) = p

\* C8: in every interleaving of two workers that refer to the same document
\* that is not on disk, every ET.parse reads the complete bytes of the
\* document, and the file left on disk holds the fetched bytes.
C8_WorkersParseCompleteFiles ==
    /\ \A w \in Workers : \A k \in DOMAIN wk[w].parsed :
          wk[w].parsed[k].file = FileOf(wk[w].parsed[k].path)
    /\ AllTasksDone => \A p \in Paths : FetchedOk(p) => fs[p] = FileOf(p)

(***************************************************************************)
(* C2                                                                      *)
(***************************************************************************)
\* The stored properties of a type: those of its base chain, the base-most
\* ancestor's first, then its own, each layer in declaration order.
RECURSIVE ChainProperties(_)
ChainProperties(typedef) ==
    IF typedef.kind # "EntityType" THEN <<>>
    ELSE ChainProperties(typedef.basetype) \o typedef.properties

FieldsOf(lines) == SelectSeq(lines, LAMBDA l : l.line = "field")

EntityFields(L, typedef) ==
    generate_properties_for_entity(L, typedef, 1, typedef.name,
                                   NsRoot(typedef.namespace))

\* C2: for every EntityType of the list, generate_properties_for_entity
\* started at index 1 numbers the fields 1, 2, ... with no gap and no repeat,
\* in the order of the stored properties of the base chain, base-most first;
\* when it returns it has emitted one field for each of the N stored
\* properties, and the file written for the type, the one with its path
\* and its package, holds these fields.
C2_FieldsNumberedBaseFirst ==
    (Ingested /\ main.pc \notin {"dedup", "sort"}) =>
        \A j \in DOMAIN main.flat_list :
            main.flat_list[j].kind = "EntityType" =>
                LET typedef == main.flat_list[j]
                    g == EntityFields(main.flat_list, typedef)
                    fields == FieldsOf(g.lines)
                    props == ChainProperties(typedef)
                IN  /\ Len(fields) <= Len(props)
                    /\ \A k \in DOMAIN fields :
                          fields[k].index = k /\ fields[k].name = props[k].name
                    /\ g.exc = "" => Len(fields) = Len(props)
                    /\ \A f \in out.files :
                          (/\ f.path = get_grpc_filename_from_entity(typedef)
                           /\ f.package = NsRoot(typedef.namespace)
                           /\ main.pc # "generate")
                              => f.lines = g.lines

\* A type with an inherited and two own stored properties has been written.
C2_Witness ==
    /\ corpus = "versioned"
    /\ \E f \in out.files :
          /\ f.path = "fa/A.proto"
          /\ Len(FieldsOf(f.lines)) = 3
          /\ FieldsOf(f.lines)[3].name = "Count"

(***************************************************************************)
(* C6                                                                      *)
(***************************************************************************)
TypeTags == {"EntityType", "EnumType", "ComplexType", "TypeDefinition"}

\* The number of type declarations of the document at path that the name
\* names, by its plain or its qualified name.
Declarations(path, name) ==
    LET schemas == Document(corpus, path).schemas IN
    Cardinality(
        {e \in UNION {{<<si, k>> : k \in DOMAIN schemas[si].elems}
                         : si \in DOMAIN schemas} :
            LET d == schemas[e[1]].elems[e[2]] IN
            /\ d.tag \in TypeTags
            /\ \/ d.name = StrOf(name)
               \/ NsString(schemas[e[1]].ns) \o "." \o d.name = StrOf(name)})

\* The scope entries a call has searched so far: entry k was the k-th, its
\* count is the number of declarations of its document, and every entry
\* before the last had no match or more than one.
SearchedInOrder(c) ==
    /\ Len(c.log) <= Len(c.refs)
    /\ \A k \in DOMAIN c.log :
          /\ c.log[k].i = k
          /\ c.log[k].n = Declarations(SchemaPath(c.refs[k].uri), c.name)
          /\ k < Len(c.log) => c.log[k].n # 1

\* C6: the resolver consults the scope entries in order; an entry with no
\* match or with several is passed over; the first entry with exactly one
\* match gives the result and no later entry is consulted; the current
\* document is searched only after every entry has failed.
C6_ScopeOrder ==
    \A w \in Workers :
        /\ \A k \in DOMAIN wk[w].calls :
              LET c == wk[w].calls[k] IN
              /\ SearchedInOrder(c)
              /\ IF c.fallback
                 THEN /\ Len(c.log) = Len(c.refs)
                      /\ \A h \in DOMAIN c.log : c.log[h].n # 1
                 ELSE /\ Len(c.log) >= 1
                      /\ c.log[Len(c.log)].n = 1
                      /\ c.result.from_file
                            = SchemaPath(c.refs[Len(c.log)].uri)
        /\ \A d \in DOMAIN wk[w].stack :
              LET f == wk[w].stack[d] IN
              f.fn = "find_element_in_scope" =>
                  /\ SearchedInOrder(f)
                  /\ f.ph \in {"loop", "fetch", "open", "write1", "write2",
                               "parse"}
                        => f.i = Len(f.log) + 1
                           /\ \A h \in DOMAIN f.log : f.log[h].n # 1
                  /\ f.ph \in {"fallback", "fallbackparsed"}
                        => /\ Len(f.log) = Len(f.refs)
                           /\ \A h \in DOMAIN f.log : f.log[h].n # 1

\* One call passed over an entry with no match and one with two and took
\* its result from the third; another call fell back after all three.
C6_Witness ==
    \E w \in Workers : \E a, b \in DOMAIN wk[w].calls :
        /\ ~wk[w].calls[a].fallback
        /\ Len(wk[w].calls[a].log) = 3
        /\ [k \in 1..3 |-> wk[w].calls[a].log[k].n] = <<0, 2, 1>>
        /\ wk[w].calls[b].fallback
        /\ Len(wk[w].calls[b].log) = 3

(***************************************************************************)
(* C7                                                                      *)
(***************************************************************************)
\* The property references of L: <<j, c, k>> is property k of node c of the
\* base chain of element j.
PropertyRefs(L) ==
    UNION {
      UNION { {<<j, c, k>> :
                 k \in DOMAIN NodeAt(L, ChainLocs(L, Loc(j, <<>>))[c]).properties}
              : c \in {c \in DOMAIN ChainLocs(L, Loc(j, <<>>)) :
                         NodeAt(L, ChainLocs(L, Loc(j, <<>>))[c]).kind
                            = "EntityType"} }
      : j \in DOMAIN L }

RefAt(L, r) ==
    NodeAt(L, ChainLocs(L, Loc(r[1], <<>>))[r[2]]).properties[r[3]].type

\* What a reference points at, without the graph below it.
Pointee(L, v) ==
    LET t == Deref(L, v) IN
    IF t.kind = "EntityType"
    THEN [kind |-> t.kind, name |-> t.name, namespace |-> t.namespace,
          from_file |-> t.from_file, abstract |-> t.abstract]
    ELSE [kind |-> t.kind]

\* An abstract type that no element of L has its base chain end at.
Unmatched(L, t) ==
    IsAbstract(t) /\ ~\E j \in DOMAIN L : MatchesAbstract(L[j], t)

\* The list is the sorted list, the pass has started on it.
InOrAfterPass ==
    \/ main.pc = "abstract"
    \/ PassDone
    \/ main.pc = "raised" /\ main.flat_list # <<>>

\* C7: a property's reference to an abstract type that no element of the
\* list has its base chain end at is the same abstract reference during and
\* after the abstract pass, and find_type_for_abstract returns it without
\* raising.
C7_UnmatchedAbstractKept ==
    InOrAfterPass =>
        \A r \in PropertyRefs(PrePass) :
            Unmatched(PrePass, RefAt(PrePass, r)) =>
                /\ RefAt(main.flat_list, r).kind # "ListRef"
                /\ Pointee(main.flat_list, RefAt(main.flat_list, r))
                      = Pointee(PrePass, RefAt(PrePass, r))
                /\ find_type_for_abstract(main.flat_list,
                                          RefAt(main.flat_list, r))
                      = [exc |-> "", v |-> RefAt(main.flat_list, r)]

\* The pass has run over a list with a reference to an abstract type that
\* the list has no element for.
C7_Witness ==
    /\ PassDone
    /\ \E r \in PropertyRefs(PrePass) : Unmatched(PrePass, RefAt(PrePass, r))

(***************************************************************************)
(* C9                                                                      *)
(***************************************************************************)
\* C9: within one worker a fetch is issued only for a document that was
\* absent from the schema directory when the worker looked; once a fetch of
\* the worker has succeeded the bytes are stored under the basename of the
\* uri and the worker fetches that document no more; and ET.parse builds the
\* tree of a path at most once.
C9_FetchedAndParsedOnce ==
    \A w \in Workers :
        LET fetched == wk[w].fetched
            parsed == wk[w].parsed
        IN  /\ \A k \in DOMAIN fetched : fetched[k].absent
            /\ \A i, j \in DOMAIN fetched :
                  (i < j /\ UriBasename(fetched[i].uri)
                               = UriBasename(fetched[j].uri))
                     => ~fetched[i].ok
            /\ \A k \in DOMAIN fetched :
                  fetched[k].ok =>
                     \/ k = Len(fetched) /\ InFind(w, "open")
                     \/ /\ fs[UriBasename(fetched[k].uri)].exists
                        /\ \A n \in 1..2 :
                              fs[UriBasename(fetched[k].uri)].bytes[n]
                                 \in {"-", "0", UriBasename(fetched[k].uri)}
            /\ \A i, j \in DOMAIN parsed :
                  (i < j /\ parsed[i].path = parsed[j].path)
                     => ~WellFormed(parsed[i].file)

\* A worker has fetched fb.xml, parsed it once and resolved two references
\* to it.
C9_Witness ==
    \E w \in Workers :
        /\ \E k \in DOMAIN wk[w].fetched : wk[w].fetched[k].ok
        /\ Cardinality({k \in DOMAIN wk[w].parsed :
                           wk[w].parsed[k].path = "fb.xml"}) = 1
        /\ Cardinality({k \in DOMAIN wk[w].calls :
                           /\ wk[w].calls[k].result.kind = "EntityType"
                           /\ wk[w].calls[k].result.from_file = "fb.xml"}) = 2

(***************************************************************************)
(* C10                                                                     *)
(***************************************************************************)
\* C10: a fetch that is answered with a failure ends its task with the
\* error and the task fetches nothing more; a file is in the schema
\* directory only if it was there at the start or a fetch of it succeeded;
\* and once a task has failed so, main() executes nothing after the
\* ingestion: no dedup, no pass, no output.
C10_FetchFailureAborts ==
    /\ \A w \in Workers : \A k \in DOMAIN wk[w].fetched :
          ~wk[w].fetched[k].ok =>
             /\ pool.results[wk[w].fetched[k].task] = Failed("HTTPError")
             /\ \A j \in DOMAIN wk[w].fetched :
                   j > k => wk[w].fetched[j].task # wk[w].fetched[k].task
    /\ \A p \in Paths :
          fs[p].exists => p \in OnDisk(corpus) \/ FetchedOk(p)
    /\ (\E t \in DOMAIN pool.results : pool.results[t].exc = "HTTPError")
          => /\ main.pc \in {"ingest", "raised"}
             /\ main.flat_list = <<>>
             /\ out = PriorOutput(out.prior)

\* The run has ended with the error of a failed fetch and the document is
\* not in the schema directory.
C10_Witness ==
    /\ main.pc = "raised"
    /\ main.exc = "HTTPError"
    /\ \A p \in Paths : fs[p].exists => p \in OnDisk(corpus)

(***************************************************************************)
(* C11                                                                     *)
(***************************************************************************)
Stale(f) == f.package = "stale"

\* C11: until clear_and_make_output_dirs has returned the run has written
\* nothing into the output tree; when it returns, whatever tree the run
\* found, the output directory exists and holds nothing but an empty
\* proto_out; and from then on the tree holds no file and no directory of
\* the previous tree, only what this run has written.
C11_WipeBeforeWrite ==
    /\ ~out.wiped => /\ out = PriorOutput(out.prior)
                     /\ main.pc \in {"ingest", "dedup", "sort", "abstract",
                                      "wipe", "raised"}
    /\ (main.pc = "generate" /\ main.i = 1)
          => /\ out.wiped /\ out.exists
             /\ out.dirs = {"proto_out"} /\ out.files = {}
             /\ out.root_manifest = <<>>
    /\ out.wiped
          => /\ out.exists /\ "proto_out" \in out.dirs
             /\ \A f \in out.files : ~Stale(f)
             /\ out.dirs \subseteq
                   {"proto_out"} \cup {Stem(main.flat_list[j].from_file) :
                                          j \in DOMAIN main.flat_list}
             /\ \A q \in DOMAIN out.root_manifest :
                   \E k \in DOMAIN out.folders : out.folders[k] = q

\* A run that found the tree of a previous run has wiped it and written its
\* protos, the reference wrapper, the entry file and the manifest.
C11_Witness ==
    /\ out.prior = "full"
    /\ main.pc = "done"
    /\ \E f \in out.files : f.path = "entry.proto"
    /\ \E f \in out.files : f.path = "NavigationReference.proto"
    /\ \E f \in out.files : f.path = "fa/A.proto"
    /\ DOMAIN out.root_manifest # {}

(***************************************************************************)
(* C12                                                                     *)
(***************************************************************************)
\* os.path.dirname of a path of the output tree, relative to GRPC_DIR: the
\* directory of the type the file was generated for, "." for a file of
\* GRPC_DIR itself.
DirOf(path) ==
    LET L == main.flat_list
        made == {j \in DOMAIN L : get_grpc_filename_from_entity(L[j]) = path}
    IN  IF made = {} THEN "."
        ELSE Stem(L[CHOOSE j \in made : TRUE].from_file)

\* The entries folders_added_to_grpc holds for directory d: d itself, or a
\* path inside d.
EntriesFor(folders, d) ==
    {k \in DOMAIN folders : folders[k] = d \/ DirOf(folders[k]) = d}

\* C12: after any sequence of proto-file writes, folders_added_to_grpc holds
\* one entry for each output directory a file was written into, however many
\* files the directory received, and the root meson.build lists each such
\* directory once.
C12_EachDirectoryOnce ==
    out.wiped =>
        \A f \in out.files :
            DirOf(f.path) # "." =>
                /\ Cardinality(EntriesFor(out.folders, DirOf(f.path))) = 1
                /\ main.pc \in {"protoc", "done"} =>
                      /\ DirOf(f.path) \in DOMAIN out.root_manifest
                      /\ out.root_manifest[DirOf(f.path)] = 1

(***************************************************************************)
(* C13                                                                     *)
(***************************************************************************)
\* The navigation paths from the node `ref` points at: a path is the
\* sequence of the names of the NavigationProperties followed, own or
\* inherited; with each path the type it leads to and the number of
\* collections it has passed through.
RECURSIVE NavPaths(_, _, _, _, _)
NavPaths(L, ref, path, crossed, fuel) ==
    LET t == Deref(L, ref) IN
    IF fuel = 0 THEN {}
    ELSE CASE t.kind = "Collection" ->
                NavPaths(L, t.contained_type, path, crossed + 1, fuel - 1)
           [] t.kind = "TypeDef" ->
                NavPaths(L, t.basetype, path, crossed, fuel - 1)
           [] t.kind = "EntityType" ->
                {[path |-> path, crossed |-> crossed,
                  leaf |-> NsRoot(t.namespace) \o "." \o t.name]}
                \cup UNION {
                    NavPaths(L, ChainProperties(t)[k].type,
                             Append(path, ChainProperties(t)[k].name),
                             crossed, fuel - 1)
                    : k \in {k \in DOMAIN ChainProperties(t) :
                                ChainProperties(t)[k].kind
                                    = "NavigationProperty"} }
           [] OTHER -> {}

RootPaths ==
    NavPaths(main.flat_list, ServiceRoots(main.flat_list)[1],
             <<"ServiceRoot">>, 0, RecursionLimit)

\* entry.proto with everything write_service_root writes into it.
EntryWritten(f) == f \in out.files /\ f.path = "entry.proto" /\ f.lines # <<>>

LinesNamed(lines, kind, name) ==
    {i \in DOMAIN lines : lines[i].line = kind /\ lines[i].name = name}

\* The fields of the message that starts at line i.
MessageFields(lines, i) ==
    LET stops == {j \in (i + 1)..Len(lines) : lines[j].line # "field"}
        end == IF stops = {} THEN Len(lines) + 1
               ELSE CHOOSE j \in stops : \A h \in stops : j <= h
    IN  SubSeq(lines, i + 1, end - 1)

\* C13: in the root service file every navigation path from the root entity
\* has exactly one rpc, which returns the type the path leads to, and
\* exactly one filter-spec message, whose fields are expand = 1 and
\* filter = 2 and, exactly when the path has passed through a collection,
\* one more field, an identifier numbered 3, however many collections the
\* path has passed through.
C13_OneRpcPerNavigationPath ==
    \A f \in out.files :
        EntryWritten(f) =>
            \A np \in RootPaths :
                LET name == "Get_" \o PathString(np.path)
                    rpcs == LinesNamed(f.lines, "rpc", name)
                    msgs == LinesNamed(f.lines, "message",
                                       name \o "_FilterSpec")
                IN  /\ Cardinality(rpcs) = 1
                    /\ \A i \in rpcs : f.lines[i].type = np.leaf
                    /\ Cardinality(msgs) = 1
                    /\ \A i \in msgs :
                          LET fields == MessageFields(f.lines, i) IN
                          /\ Len(fields) = IF np.crossed >= 1 THEN 3 ELSE 2
                          /\ fields[1].name = "expand" /\ fields[1].index = 1
                          /\ fields[2].name = "filter" /\ fields[2].index = 2
                          /\ Len(fields) = 3 =>
                                /\ fields[3].index = 3
                                /\ fields[3].type = "NavigationReference"

\* The root service file of a root with six navigation paths: one
\* inherited, one through an expanded property, two through a collection
\* and one through two collections.
C13_Witness ==
    \E f \in out.files :
        /\ EntryWritten(f)
        /\ Cardinality(RootPaths) = 6
        /\ \E np \in RootPaths : np.crossed = 2
        /\ \E np \in RootPaths : np.crossed = 1
        /\ \E np \in RootPaths : np.path = <<"ServiceRoot", "Base">>
        /\ \E np \in RootPaths : np.path = <<"ServiceRoot", "Item">>

(***************************************************************************)
(* C14                                                                     *)
(***************************************************************************)
RootType(L) ==
    NsRoot(ServiceRoots(L)[1].namespace) \o "." \o ServiceRoots(L)[1].name

\* C14: when the list the backends are given holds no element named
\* ServiceRoot or more than one, the run ends with the exception of the
\* uniqueness check and neither entry.proto nor grpc_defs.hpp has been
\* opened; a run that gets past write_cpp_code had exactly one such element
\* and has generated both files from it: the first rpc and the first
\* handler are those of the root path and return that element's type.
C14_UniqueRootOrAbort ==
    LET roots == ServiceRoots(main.flat_list) IN
    /\ (out.wiped /\ Len(roots) # 1)
          => /\ main.pc \in {"generate", "fixed", "service_root", "raised"}
             /\ \A f \in out.files : f.path # "entry.proto"
             /\ ~out.cpp.exists
             /\ (main.pc = "raised" /\ \E f \in out.files :
                                          f.path = "NavigationReference.proto")
                   => main.exc = "Exception"
    /\ main.pc \in {"meson", "protoc", "done"}
          => /\ Len(roots) = 1
             /\ \E f \in out.files :
                   /\ EntryWritten(f)
                   /\ \E i \in DOMAIN f.lines :
                         /\ f.lines[i] = RpcLine("Get_ServiceRoot",
                                                 RootType(main.flat_list))
                         /\ \A h \in 1..(i - 1) : f.lines[h].line # "rpc"
             /\ out.cpp.exists
             /\ Len(out.cpp.handlers) >= 1
             /\ out.cpp.handlers[1].name = "Get_ServiceRoot"
             /\ out.cpp.handlers[1].response
                   = NsRoot(roots[1].namespace) \o "::" \o roots[1].name

\* A run over a list with two elements named ServiceRoot has ended at the
\* uniqueness check, after the protos and the reference wrapper.
C14_Witness ==
    /\ Len(ServiceRoots(main.flat_list)) = 2
    /\ main.pc = "raised" /\ main.exc = "Exception"
    /\ \E f \in out.files : f.path = "NavigationReference.proto"

(***************************************************************************)
(* C15                                                                     *)
(***************************************************************************)
\* The rpc lines of a file, in the order they are written.
Rpcs(f) == SelectSeq(f.lines, LAMBDA l : l.line = "rpc")

\* C15: once the root service file and the conversion-code file of a run
\* are both written, the conversion code has one handler per rpc of the
\* root service file and no other: the handler has the rpc's name and its
\* filter-spec as request, its response type is the type the rpc returns,
\* and it takes its request URI from the request's identifier field
\* exactly when the rpc's filter-spec declares one.
C15_HandlersMatchRpcs ==
    \A f \in out.files :
        (EntryWritten(f) /\ out.cpp.exists) =>
            LET rpcs == Rpcs(f)
                hs == out.cpp.handlers
            IN  /\ Len(hs) = Len(rpcs)
                /\ \A i \in DOMAIN rpcs :
                      \E k \in DOMAIN hs :
                         /\ hs[k].name = rpcs[i].name
                         /\ hs[k].request = rpcs[i].name \o "_FilterSpec"
                         /\ \E j \in DOMAIN main.flat_list :
                               LET t == main.flat_list[j] IN
                               /\ rpcs[i].type
                                    = NsRoot(t.namespace) \o "." \o t.name
                               /\ hs[k].response
                                    = NsRoot(t.namespace) \o "::" \o t.name
                         /\ \A m \in LinesNamed(f.lines, "message",
                                                 hs[k].request) :
                               hs[k].uri.from = "request"
                                   <=> Len(MessageFields(f.lines, m)) = 3

(***************************************************************************)
(* C16                                                                     *)
(***************************************************************************)
\* The entity a property type leads to, through collections and type
\* definitions.
RECURSIVE LeafType(_, _)
LeafType(L, ref) ==
    LET t == Deref(L, ref) IN
    CASE t.kind = "Collection" -> LeafType(L, t.contained_type)
      [] t.kind = "TypeDef" -> LeafType(L, t.basetype)
      [] OTHER -> t

\* The texts that name the message of entity u.
OwnTypeTexts(u) ==
    {pre \o txt : pre \in {"", "repeated "},
                  txt \in {u.name,
                           "." \o NsRoot(u.namespace) \o "." \o u.name}}

\* File f holds the message of typedef with every navigation property
\* rendered as C16 says.
NavigationRendered(L, f, typedef) ==
    LET props == ChainProperties(typedef)
        fields == FieldsOf(f.lines)
        navs == {k \in DOMAIN props : props[k].kind = "NavigationProperty"}
        plain(k) == ~props[k].auto_expand /\ ~props[k].contains_target
    IN  /\ Len(fields) = Len(props)
        /\ \A k \in navs :
              LET u == LeafType(L, props[k].type) IN
              /\ fields[k].name = props[k].name
              /\ plain(k) =>
                    /\ fields[k].type
                         = IF Deref(L, props[k].type).kind = "Collection"
                           THEN "repeated NavigationReference"
                           ELSE "NavigationReference"
                    /\ "NavigationReference.proto" \in f.imports
                    /\ get_grpc_filename_from_entity(u) \in f.imports =>
                          \E h \in DOMAIN props :
                             /\ ~(h \in navs /\ plain(h))
                             /\ LeafType(L, props[h].type).kind
                                    \notin {"BaseType", "None"}
                             /\ get_grpc_filename_from_entity(
                                    LeafType(L, props[h].type))
                                  = get_grpc_filename_from_entity(u)
              /\ ~plain(k) =>
                    /\ fields[k].type \in OwnTypeTexts(u)
                    /\ get_grpc_filename_from_entity(u) \in f.imports

\* A file generate_grpc_for_type has written in this run.
MessageFile(f) ==
    /\ f \in out.files
    /\ f.package \notin {"stale", "", "redfish_v1"}

\* C16: in every generated message a NavigationProperty with neither
\* autoExpand nor containsTarget has the type NavigationReference, repeated
\* exactly when its type is a Collection, and the file imports
\* NavigationReference.proto and, for this property, neither names the
\* target's message nor imports the target's file; a NavigationProperty with
\* autoExpand or containsTarget has the target's own type.
C16_NavigationReferences ==
    \A f \in out.files :
        MessageFile(f) =>
            \E j \in DOMAIN main.flat_list :
                LET typedef == main.flat_list[j] IN
                /\ get_grpc_filename_from_entity(typedef) = f.path
                /\ typedef.kind = "EntityType" =>
                      NavigationRendered(main.flat_list, f, typedef)

\* The message of a type with a reference, a collection of references and a
\* contained entity, and the message of a type with an expanded property.
C16_Witness ==
    /\ main.pc = "done"
    /\ \E f \in out.files :
          /\ MessageFile(f) /\ f.path = "fa/T.proto"
          /\ \E k \in DOMAIN f.lines :
                f.lines[k].name = "Subs"
                /\ f.lines[k].type = "repeated NavigationReference"
          /\ \E k \in DOMAIN f.lines :
                f.lines[k].name = "Item" /\ f.lines[k].type = "Z"
    /\ \E f \in out.files :
          /\ MessageFile(f) /\ f.path = "fx/ServiceRoot.proto"
          /\ \E k \in DOMAIN f.lines :
                f.lines[k].name = "Base"
                /\ f.lines[k].type = "NavigationReference"
          /\ \E k \in DOMAIN f.lines :
                f.lines[k].name = "Item" /\ f.lines[k].type = ".NA.Z"

(***************************************************************************)
(* C17                                                                     *)
(***************************************************************************)
\* The names of the properties stored on t and on every node inside t.
RECURSIVE StoredNames(_)
StoredNames(t) ==
    CASE t.kind = "EntityType" ->
            {t.properties[k].name : k \in DOMAIN t.properties}
            \cup UNION {StoredNames(t.properties[k].type)
                        : k \in DOMAIN t.properties}
            \cup StoredNames(t.basetype)
      [] t.kind = "Collection" -> StoredNames(t.contained_type)
      [] t.kind = "TypeDef" -> StoredNames(t.basetype)
      [] OTHER -> {}

\* Every node a process holds: the entity each parse_file call is filling
\* and the types it has finished, the results of the pool, and flat_list.
NodesHeld ==
    {main.flat_list[j] : j \in DOMAIN main.flat_list}
    \cup UNION {{pool.results[r].value[j]
                    : j \in DOMAIN pool.results[r].value}
                : r \in DOMAIN pool.results}
    \cup UNION {UNION {{wk[w].stack[d].ent}
                       \cup {wk[w].stack[d].out[j]
                                : j \in DOMAIN wk[w].stack[d].out}
                       : d \in {d \in DOMAIN wk[w].stack :
                                   wk[w].stack[d].fn = "parse_file"}}
                : w \in Workers}

\* The names of the properties the documents of the run declare.
DeclaredNames ==
    UNION {UNION {UNION {{Document(corpus, d).schemas[i].elems[e].props[k].name
                            : k \in DOMAIN
                                Document(corpus, d).schemas[i].elems[e].props}
                         : e \in DOMAIN Document(corpus, d).schemas[i].elems}
                  : i \in DOMAIN Document(corpus, d).schemas}
           : d \in OnDisk(corpus)}

\* C17: no node holds a property whose name is in the denylist; no generated
\* message has a field of such a name, and the fields of a message are
\* numbered without a gap where such a property is declared; no rpc, no
\* filter-spec and no handler is named by a path that ends in such a name.
C17_DenylistedNeverStored ==
    /\ \A t \in NodesHeld : StoredNames(t) \cap circular_imports = {}
    /\ \A f \in out.files :
          MessageFile(f) =>
            /\ \A k \in DOMAIN FieldsOf(f.lines) :
                  FieldsOf(f.lines)[k].name \notin circular_imports
            /\ \E j \in DOMAIN main.flat_list :
                  /\ get_grpc_filename_from_entity(main.flat_list[j]) = f.path
                  /\ main.flat_list[j].kind = "EntityType" =>
                        \A k \in DOMAIN FieldsOf(f.lines) :
                            FieldsOf(f.lines)[k].index = k
    /\ \A name \in circular_imports :
          \A np \in IF Len(ServiceRoots(main.flat_list)) = 1 THEN RootPaths
                     ELSE {} :
             LET rpc == "Get_" \o PathString(Append(np.path, name)) IN
             /\ \A f \in out.files :
                   EntryWritten(f) =>
                      \A k \in DOMAIN f.lines :
                          f.lines[k].name \notin {rpc, rpc \o "_FilterSpec"}
             /\ \A k \in DOMAIN out.cpp.handlers :
                   out.cpp.handlers[k].name # rpc

\* A finished run over documents that declare a navigation property with a
\* denylisted name on the service root, between properties that are stored.
C17_Witness ==
    /\ main.pc = "done"
    /\ "SubTasks" \in DeclaredNames
    /\ Len(out.cpp.handlers) > 0
    /\ \E f \in out.files :
          /\ MessageFile(f) /\ f.path = "fx/ServiceRoot.proto"
          /\ \E k \in DOMAIN f.lines :
                f.lines[k].name = "Chassis" /\ f.lines[k].index = 3

(***************************************************************************)
(* C18                                                                     *)
(***************************************************************************)
\* The abstract pass is the only recursion main() runs before it clears the
\* output directory.
\* C18: the abstract pass terminates on every merged list, also when its
\* rewrites make property types point back at list elements it is
\* processing: no run ends in the pass with the recursion limit exceeded.
C18_PassTerminates ==
    ~(main.pc = "raised" /\ main.exc = "RecursionError" /\ ~out.wiped)

(***************************************************************************)
(* C19                                                                     *)
(***************************************************************************)
\* The types parse_file returned, as they were before the abstract pass.
Parsed ==
    UNION {{pool.results[r].value[j] : j \in DOMAIN pool.results[r].value}
           : r \in DOMAIN pool.results}

\* a and b are the same declaration.
SameDeclaration(a, b) ==
    /\ a.kind = b.kind
    /\ a.kind \in {"BaseType", "Collection"} => a.name = b.name
    /\ a.kind \in {"EntityType", "Enum", "Complex", "TypeDef"} =>
          /\ a.name = b.name
          /\ a.namespace = b.namespace
          /\ a.from_file = b.from_file

\* C19: the abstract pass replaces the type of a property only when that
\* type is an abstract EntityType: a property of a list element whose type
\* was parsed as a non-abstract EntityType, an Enum, a Complex, a TypeDef, a
\* primitive or a Collection still has that type, whatever the base chains
\* of the list elements end at.
C19_OnlyAbstractReplaced ==
    \A j \in DOMAIN main.flat_list :
        \A o \in Parsed :
            (/\ o.kind = "EntityType"
             /\ main.flat_list[j].kind = "EntityType"
             /\ SameDeclaration(o, main.flat_list[j])) =>
                \A k \in DOMAIN o.properties :
                    LET before == o.properties[k].type
                        after == Deref(main.flat_list,
                                       main.flat_list[j].properties[k].type)
                    IN  ~(before.kind = "EntityType" /\ before.abstract) =>
                            SameDeclaration(before, after)

(***************************************************************************)
(* C20                                                                     *)
(***************************************************************************)
\* The namespaces the Include children of scope entry k of the document at
\* path name.
Included(path, k) ==
    LET includes == Document(corpus, path).refs[k].includes IN
    {includes[h] : h \in DOMAIN includes}

\* The number of type declarations the name names in the namespace blocks
\* of the document at path that are among the namespaces nss.
DeclarationsIn(path, name, nss) ==
    LET schemas == Document(corpus, path).schemas IN
    Cardinality(
        {e \in UNION {{<<si, k>> : k \in DOMAIN schemas[si].elems}
                         : si \in DOMAIN schemas} :
            LET d == schemas[e[1]].elems[e[2]] IN
            /\ NsString(schemas[e[1]].ns) \in nss
            /\ d.tag \in TypeTags
            /\ \/ d.name = StrOf(name)
               \/ NsString(schemas[e[1]].ns) \o "." \o d.name = StrOf(name)})

\* C20: when the resolver searches the document of a scope entry that has
\* include declarations, it counts the declarations of the requested name
\* in the namespace blocks these name and in no other block, and the
\* declaration it returns from the entry sits in one of these blocks.
C20_OnlyIncludedNamespaces ==
    \A w \in Workers :
        \A a \in DOMAIN wk[w].calls :
            LET c == wk[w].calls[a] IN
            \A k \in DOMAIN c.log :
                Included(c.this_file, k) # {} =>
                    /\ c.log[k].n
                         = DeclarationsIn(SchemaPath(c.refs[k].uri), c.name,
                                          Included(c.this_file, k))
                    /\ (~c.fallback /\ k = Len(c.log)
                            /\ c.result.kind
                                  \in {"EntityType", "Enum", "Complex",
                                       "TypeDef"}) =>
                          NsString(c.result.namespace)
                              \in Included(c.this_file, k)

(***************************************************************************)
(* C21                                                                     *)
(***************************************************************************)
\* The case of a NavigationProperty in the JSON walk: with loopNeedsExpand a
\* Collection is looped over only with expand_references, without it every
\* Collection is.
ExpectedCase(property_node, isCollection, loopNeedsExpand) ==
    IF property_node.auto_expand \/ property_node.contains_target
    THEN "inline"
    ELSE IF isCollection
            /\ (loopNeedsExpand => property_node.expand_references)
    THEN "loop"
    ELSE "single"

\* What follows `if (key1 == name)` at place i of a handler's body is the
\* code of the case and of no other: a nested walk of the target, the loop
\* that converts every reference of the array, or the conversion of one
\* reference into the property's field.
CaseWalked(case, property_node, body, i) ==
    /\ i < Len(body)
    /\ CASE case = "inline" ->
               /\ body[i + 1].op \in {"object", "array"}
               /\ body[i + 1].field = Lower(property_node.name)
               /\ body[i + 1].level = 2
               /\ \A h \in (i + 1)..Len(body) :
                     (\A g \in (i + 1)..h : body[g].op # "key"
                                             \/ body[g].level > 1)
                        => body[h].level > 1
          [] case = "loop" ->
               /\ body[i + 1]
                    = Stmt("NavigationReferences",
                           Lower(property_node.name), 2)
               /\ i + 2 <= Len(body) => body[i + 2].op = "key"
          [] case = "single" ->
               /\ body[i + 1]
                    = Stmt("NavigationReference",
                           Lower(property_node.name), 1)
               /\ i + 2 <= Len(body) => body[i + 2].op = "key"

\* Every NavigationProperty of the type a handler answers with is walked
\* as its case says.
NavigationWalked(loopNeedsExpand) ==
    \A k \in DOMAIN out.cpp.handlers :
        \A j \in DOMAIN main.flat_list :
            LET h == out.cpp.handlers[k]
                t == main.flat_list[j]
                props == ChainProperties(t)
            IN  (/\ t.kind = "EntityType"
                 /\ h.response = NsRoot(t.namespace) \o "::" \o t.name) =>
                    \A n \in DOMAIN props :
                        props[n].kind = "NavigationProperty" =>
                            \E i \in DOMAIN h.body :
                                /\ h.body[i] = Stmt("key", props[n].name, 1)
                                /\ CaseWalked(
                                      ExpectedCase(props[n],
                                          Deref(main.flat_list,
                                                props[n].type).kind
                                              = "Collection",
                                          loopNeedsExpand),
                                      props[n], h.body, i)

\* C21 as claimed: in the JSON walk a NavigationProperty with autoExpand or
\* containsTarget is a nested walk of the target; else one with
\* expandReferences and a Collection type is a loop of reference
\* conversions; every other one, a Collection without expandReferences
\* too, is one reference conversion into the property's field.
C21_CollectionWithoutExpandIsSingle == NavigationWalked(TRUE)

\* C21: in the JSON walk a NavigationProperty with autoExpand or
\* containsTarget is a nested walk of the target; else one with a
\* Collection type, with or without expandReferences, is a loop of
\* reference conversions; every other one is one reference conversion into
\* the property's field.
C21_ThreeNavigationCases == NavigationWalked(FALSE)

\* The handler of a root with an expanded property, a collection with
\* expanded references, a collection without, and two single references.
C21_Witness ==
    /\ main.pc = "done"
    /\ \E k \in DOMAIN out.cpp.handlers :
          LET body == out.cpp.handlers[k].body IN
          /\ out.cpp.handlers[k].name = "Get_ServiceRoot"
          /\ \E i \in DOMAIN body :
                body[i] = Stmt("key", "Item", 1)
                /\ body[i + 1] = Stmt("object", "item", 2)
          /\ \E i \in DOMAIN body :
                body[i] = Stmt("NavigationReferences", "subs", 2)
          /\ \E i \in DOMAIN body :
                body[i] = Stmt("NavigationReferences", "chassis", 2)
          /\ \E i \in DOMAIN body :
                body[i] = Stmt("NavigationReference", "base", 1)
          /\ \E i \in DOMAIN body :
                body[i] = Stmt("NavigationReference", "link", 1)

(***************************************************************************)
(* C22                                                                     *)
(***************************************************************************)
\* C22: building the type graph terminates for every corpus: no task ends
\* because parse_file and find_element_in_scope have called each other
\* until the recursion limit, also when an entity has a property, not in
\* the denylist, whose type is the entity itself.
C22_GraphBuildingTerminates ==
    /\ pool.first # "RecursionError"
    /\ \A r \in DOMAIN pool.results : pool.results[r].exc # "RecursionError"

(***************************************************************************)
(* C23                                                                     *)
(***************************************************************************)
\* The loop over flat_list in main() has written every type.
ProtoBackendDone ==
    main.pc \in {"fixed", "service_root", "cpp", "meson", "protoc", "done"}

\* C23: no proto file is overwritten within a run: two distinct entries of
\* the deduplicated list have distinct paths (documentStem)/(typeName).proto,
\* and when the proto backend has written every entry there are as many
\* per-type proto files as entries.
C23_NoProtoOverwritten ==
    /\ (Ingested /\ main.pc # "dedup") =>
          \A i, j \in DOMAIN main.flat_list :
              i # j => get_grpc_filename_from_entity(main.flat_list[i])
                         # get_grpc_filename_from_entity(main.flat_list[j])
    /\ ProtoBackendDone =>
          Cardinality({f \in out.files : MessageFile(f)})
              = Len(main.flat_list)

(***************************************************************************)
(* C24: the merged list and the scheduling of the workers                  *)
(***************************************************************************)
\* The sequential branch of main (`for filepath in filepaths:
\* out = parse_toplevel(filepath); flat_list.extend(out)`) runs parse_file and
\* find_element_in_scope in one process, one call after the other.  A call
\* either returns a value or lets an exception through.
Returned(v) == [ok |-> TRUE, v |-> v]
Thrown(exc) == [ok |-> FALSE, v |-> exc]

RECURSIVE parse_file(_, _, _, _)
RECURSIVE find_element_in_scope(_, _, _, _)
RECURSIVE SeqElements(_, _, _, _, _, _)
RECURSIVE SeqProperties(_, _, _, _, _, _)
RECURSIVE SeqReferences(_, _, _, _, _)

\* A call made by the frame at depth: past the interpreter's limit it raises.
SeqFind(depth, element_name, references, this_file) ==
    IF depth >= RecursionLimit THEN Thrown("RecursionError")
    ELSE find_element_in_scope(depth + 1, element_name, references, this_file)

SeqParse(depth, filename, namespaces_to_check, element_name_filter) ==
    IF depth >= RecursionLimit THEN Thrown("RecursionError")
    ELSE parse_file(depth + 1, filename, namespaces_to_check,
                    element_name_filter)

\* The children of an EntityType element from the pk-th on.
SeqProperties(depth, file, refs, props, pk, ent) ==
    IF pk > Len(props) THEN Returned(ent)
    ELSE LET x == props[pk] IN
         IF x.tag \notin {"Property", "NavigationProperty"}
         THEN SeqProperties(depth, file, refs, props, pk + 1, ent)
         ELSE LET t == SeqFind(depth, x.type, refs, file)
                  node == IF x.tag = "Property"
                          THEN Property(x.name, t.v, Permission(x.terms), file)
                          ELSE NavigationProperty(x.name, t.v,
                                   Permission(x.terms),
                                   "OData.AutoExpand" \in x.terms,
                                   "OData.AutoExpandReferences" \in x.terms,
                                   file, x.contains_target)
              IN  IF ~t.ok THEN t
                  ELSE SeqProperties(depth, file, refs, props, pk + 1,
                          IF Drops(x) THEN ent
                          ELSE [ent EXCEPT !.properties = Append(@, node)])

\* The selected schema elements from the k-th on.
SeqElements(depth, file, refs, els, k, EntityTypes) ==
    IF k > Len(els) THEN Returned(EntityTypes)
    ELSE LET ns == els[k].ns
             d == els[k].d
             Rest(node) == SeqElements(depth, file, refs, els, k + 1,
                                       Append(EntityTypes, node))
         IN  CASE d.tag = "EntityType" ->
                    LET basetype == IF d.base # NoAttr
                                    THEN SeqFind(depth, d.base, refs, file)
                                    ELSE Returned(NoneV)
                        ent == SeqProperties(depth, file, refs, d.props, 1,
                                   EntityType(d.name, basetype.v, ns,
                                              d.abstract, file))
                    IN  IF ~basetype.ok THEN basetype
                        ELSE IF ~ent.ok THEN ent
                        ELSE Rest(ent.v)
               [] d.tag = "EnumType" ->
                    Rest(Enum(d.name, d.members, ns, file))
               [] d.tag = "ComplexType" ->
                    Rest(Complex(d.name, ns, file))
               [] d.tag = "TypeDefinition" ->
                    LET underlying == SeqFind(depth, d.underlying, refs, file)
                    IN  IF ~underlying.ok THEN underlying
                        ELSE Rest(TypeDef(d.name, underlying.v, ns, file))
               [] OTHER ->
                    SeqElements(depth, file, refs, els, k + 1, EntityTypes)

parse_file(depth, filename, namespaces_to_check, element_name_filter) ==
    LET file == fs[filename]
        doc == Document(corpus, file.bytes[1])
    IN  IF ~file.exists THEN Thrown("FileNotFoundError")
        ELSE IF ~WellFormed(file) THEN Thrown("ParseError")
        ELSE SeqElements(depth, filename, References(doc),
                 SelectedElements(doc.schemas, namespaces_to_check,
                                  element_name_filter), 1, <<>>)

\* The loop over the references from the i-th on, and the search of this_file
\* after it.  A file that is not there would be fetched, which is outside the
\* runs the comparison is about.
SeqReferences(depth, element_name, refs, this_file, i) ==
    IF i > Len(refs)
    THEN IF Len(refs) = 0 THEN Thrown("UnboundLocalError")
         ELSE LET elements == SeqParse(depth, this_file,
                                       refs[Len(refs)].namespaces,
                                       element_name)
              IN  IF ~elements.ok THEN elements
                  ELSE Returned(IF Len(elements.v) # 1 THEN NoneV
                                ELSE elements.v[1])
    ELSE IF NotExists(fs[SchemaPath(refs[i].uri)]) THEN Thrown("requests.get")
    ELSE LET elements == SeqParse(depth, SchemaPath(refs[i].uri),
                                  refs[i].namespaces, element_name)
         IN  IF ~elements.ok THEN elements
             ELSE IF Continue(elements.v)
             THEN SeqReferences(depth, element_name, refs, this_file, i + 1)
             ELSE Returned(elements.v[1])

find_element_in_scope(depth, element_name, references, this_file) ==
    IF element_name.coll > 0
    THEN LET contained == SeqFind(depth, TN(element_name.coll - 1,
                                            element_name.base),
                                  references, this_file)
         IN  IF ~contained.ok THEN contained
             ELSE Returned(Collection(StrOf(element_name), contained.v,
                                      this_file))
    ELSE IF ~IsNone(basetype_from_edm(StrOf(element_name)))
    THEN Returned(basetype_from_edm(StrOf(element_name)))
    ELSE SeqReferences(depth, element_name, references, this_file, 1)

\* flat_list after the sequential loop over filepaths from the t-th on.
RECURSIVE Sequential(_, _, _)
Sequential(filepaths, t, flat_list) ==
    IF t > Len(filepaths) THEN Returned(flat_list)
    ELSE LET result == parse_file(1, filepaths[t], <<>>, NoFilter) IN
         IF ~result.ok THEN result
         ELSE Sequential(filepaths, t + 1, flat_list \o result.v)

SequentialList == Sequential(TopLevel(corpus), 1, <<>>)

\* No worker has looked for a file that was not there.
NoFetchNeeded == \A w \in Workers : Len(wk[w].fetched) = 0

\* C24: with no fetch needed, the list main hands to remove_old_schemas is
\* the list the sequential loop over filepaths builds (the per-document
\* results concatenated in input-file order), whichever worker ran which file
\* and in whichever order the tasks finished; so is the list that
\* remove_old_schemas makes of it.
C24_MergedListIndependentOfSchedule ==
    NoFetchNeeded =>
        /\ main.pc = "dedup" =>
              /\ SequentialList.ok
              /\ main.flat_list = SequentialList.v
        /\ main.pc = "sort" =>
              main.flat_list = remove_old_schemas(SequentialList.v)

\* Two files whose results both carry definitions, the second finished
\* before the first, and the merged list handed over.
C24_Witness ==
    /\ main.pc = "dedup"
    /\ NoFetchNeeded
    /\ pool.arrived = <<2, 1>>
    /\ Len(pool.results[1].value) > 0
    /\ Len(pool.results[2].value) > 0
    /\ wk[1].task = 2

====
